---- MODULE Spec2Model ----
(***************************************************************************)
(* Model of the backtesting engine of modules/backtester.py: the class     *)
(* Backtester (position sizing, entry, per-bar exit resolution, exit       *)
(* accounting, the replay loop of run_backtest and the result summary).    *)
(*                                                                         *)
(* Python floats are modelled as exact rationals [num, den] in lowest      *)
(* terms with den > 0.  Timestamps df.index[k] are modelled by the bar     *)
(* index k.  The bar series is revealed one row per loop iteration: the    *)
(* loop body at index k reads df.iloc[k] only (the evaluator is handed     *)
(* df.iloc[:k+1]), and the force-close after the loop reads df.iloc[-1],   *)
(* the row of the last iteration.                                          *)
(***************************************************************************)
EXTENDS Integers, Sequences, FiniteSets, TLC

VARIABLES
    pc,                \* position of the run_backtest call
    i,                 \* loop index of run_backtest (number of bars processed)
    ndf,               \* len(df) of the series handed to run_backtest
    row,               \* df.iloc[i] of the iteration processed last
    signal,            \* local `signal`: what the evaluator returned last
    initial_capital,   \* self.initial_capital
    risk_per_trade,    \* self.risk_per_trade
    fee_percent,       \* self.fee_percent
    slippage_percent,  \* self.slippage_percent
    capital,           \* self.capital
    equity_curve,      \* self.equity_curve
    equity_dates,      \* self.equity_dates
    trades,            \* self.trades (closed trades)
    open_trades,       \* self.open_trades
    result,            \* the BacktestResult returned by run_backtest
    size_args,         \* arguments of a direct calculate_position_size call
    size_ret,          \* its return value
    queried,           \* log of the evaluator calls of the current run
    df,                \* the bar series, when it is fixed before the run
    evaluator,         \* the evaluator handed to run_backtest, when it is fixed
    run,               \* number of run_backtest calls started on the instance
    first_result,      \* the BacktestResult of the first call, kept by the caller
    other,             \* a second Backtester instance and the position of its run
    ev_call,           \* a direct evaluator call: evaluator, flags and frame
    ev_frame,          \* the frame object of that call after the call
    ev_ret             \* what that call returned

vars == <<pc, i, ndf, row, signal, initial_capital, risk_per_trade, fee_percent,
          slippage_percent, capital, equity_curve, equity_dates, trades,
          open_trades, result, size_args, size_ret, queried, df, evaluator, run,
          first_result, other, ev_call, ev_frame, ev_ret>>

\* the variables of the direct calls on operations other than run_backtest
callvars == <<size_args, size_ret, ev_call, ev_frame, ev_ret>>

\* the constructor arguments kept by the instance
configvars == <<initial_capital, risk_per_trade, fee_percent, slippage_percent>>

\* the arguments of run_backtest
argvars == <<ndf, df, evaluator>>

-----------------------------------------------------------------------------
(* Bounds of the model *)

\* bars of the series beyond the warm-up window
MaxExtraBars == 2

\* the warm-up window of run_backtest: `if i >= 200`
WarmUp == 200

-----------------------------------------------------------------------------
(* Exact arithmetic standing for Python's float arithmetic *)

Abs(x) == IF x < 0 THEN -x ELSE x

RECURSIVE GCD(_, _)
GCD(a, b) == IF b = 0 THEN a ELSE GCD(b, a % b)

Rat(n, d) ==
    LET s == IF d < 0 THEN -1 ELSE 1
        g == GCD(Abs(n), Abs(d))
    IN  [num |-> (s * n) \div g, den |-> (s * d) \div g]

Num(k) == [num |-> k, den |-> 1]

RAdd(a, b) ==
    LET g == GCD(a.den, b.den)
    IN  Rat(a.num * (b.den \div g) + b.num * (a.den \div g), (a.den \div g) * b.den)

RNeg(a) == [num |-> -a.num, den |-> a.den]

RSub(a, b) == RAdd(a, RNeg(b))

RMul(a, b) ==
    LET g1 == GCD(Abs(a.num), b.den)
        g2 == GCD(Abs(b.num), a.den)
    IN  IF a.num = 0 \/ b.num = 0 THEN Num(0)
        ELSE [num |-> (a.num \div g1) * (b.num \div g2),
              den |-> (a.den \div g2) * (b.den \div g1)]

\* a / b for b # 0
RDiv(a, b) == RMul(a, Rat(b.den, b.num))

RLt(a, b) == RSub(a, b).num < 0
RLe(a, b) == RSub(a, b).num <= 0
RGt(a, b) == RLt(b, a)
RGe(a, b) == RLe(b, a)

-----------------------------------------------------------------------------
(* Values *)

\* Python's None
None == [none |-> TRUE]

\* exit_time=None / exit_price=None of an open BacktestTrade
NoTime == -1
NoPrice == [num |-> 0, den |-> 0]

Sides == {"LONG", "SHORT"}

\* rows of the bar series: high, low, close
Rows ==
    { [high |-> 99,  low |-> 97, close |-> 98],
      [high |-> 106, low |-> 99, close |-> 104],
      [high |-> 101, low |-> 99, close |-> 100],
      [high |-> 104, low |-> 97, close |-> 100],
      [high |-> 104, low |-> 99, close |-> 101],
      [high |-> 101, low |-> 94, close |-> 95] }

\* what a signal evaluator may return besides None: any side, a stop on
\* either side of the entry or equal to it, take-profit lists in any order
Signals ==
    [side : {"LONG"}, entry_price : {100}, stop_loss : {98, 100, 102},
     take_profits : {<<103, 105, 107>>}]
    \cup
    [side : {"LONG"}, entry_price : {100}, stop_loss : {98},
     take_profits : {<<107, 105, 103>>}]
    \cup
    [side : {"SHORT"}, entry_price : {100}, stop_loss : {98, 100, 102},
     take_profits : {<<97, 95, 93>>}]
    \cup
    [side : {"SHORT"}, entry_price : {100}, stop_loss : {102},
     take_profits : {<<93, 95, 97>>}]

\* arguments of the Backtester constructor
Configs ==
    { [initial_capital |-> Num(1000), risk_per_trade |-> Rat(1, 10),
       fee_percent |-> Num(0), slippage_percent |-> Num(0)],
      [initial_capital |-> Num(1000), risk_per_trade |-> Rat(1, 10),
       fee_percent |-> Num(0), slippage_percent |-> Rat(1, 10)],
      [initial_capital |-> Num(1000), risk_per_trade |-> Rat(1, 10),
       fee_percent |-> Rat(1, 10), slippage_percent |-> Num(0)],
      [initial_capital |-> Num(1000), risk_per_trade |-> Rat(1, 10),
       fee_percent |-> Rat(1, 10), slippage_percent |-> Rat(1, 10)] }

\* lengths of the series handed to run_backtest
Lengths == {0, 1, WarmUp} \cup (WarmUp + 1 .. WarmUp + MaxExtraBars)

-----------------------------------------------------------------------------
(* Backtester: the lifecycle operations.  `self` is the mutable part of the *)
(* instance an operation can change: [capital, trades, open_trades].        *)

One == Num(1)
Zero == Num(0)

\* mutant: the size from the absolute stop distance, whatever the side
calculate_position_size_abs(self, entry_price, stop_loss, side) ==
    LET risk_per_unit == IF RLt(entry_price, stop_loss)
                         THEN RSub(stop_loss, entry_price)
                         ELSE RSub(entry_price, stop_loss)
        risk_amount == RMul(self.capital, risk_per_trade)
    IN  IF RLe(risk_per_unit, Zero)
        THEN Zero
        ELSE RDiv(risk_amount, risk_per_unit)

calculate_position_size(self, entry_price, stop_loss, side) ==
    LET risk_per_unit == IF side = "LONG"
                         THEN RSub(entry_price, stop_loss)
                         ELSE RSub(stop_loss, entry_price)
        risk_amount == RMul(self.capital, risk_per_trade)
    IN  IF RLe(risk_per_unit, Zero)
        THEN Zero
        ELSE RDiv(risk_amount, risk_per_unit)

\* mutant: the position is sized from the entry price after slippage
NewTrade_SizedFromSlipped(self, timestamp, symbol, side, entry_price, stop_loss, take_profits) ==
    LET slipped == IF side = "LONG"
                   THEN RMul(entry_price, RAdd(One, slippage_percent))
                   ELSE RMul(entry_price, RSub(One, slippage_percent))
        position_size == calculate_position_size(self, slipped, stop_loss, side)
        entry_fees == RMul(RMul(position_size, slipped), fee_percent)
    IN  [entry_time    |-> timestamp,
         exit_time     |-> NoTime,
         symbol        |-> symbol,
         side          |-> side,
         entry_price   |-> slipped,
         exit_price    |-> NoPrice,
         stop_loss     |-> stop_loss,
         take_profits  |-> take_profits,
         position_size |-> position_size,
         pnl           |-> Zero,
         pnl_percent   |-> Zero,
         r_multiple    |-> Zero,
         exit_reason   |-> "",
         fees          |-> entry_fees,
         status        |-> "OPEN"]

\* the BacktestTrade enter_trade builds for a proposal it accepts
NewTrade(self, timestamp, symbol, side, entry_price, stop_loss, take_profits) ==
    LET position_size == calculate_position_size(self, entry_price, stop_loss, side)
        slipped == IF side = "LONG"
                   THEN RMul(entry_price, RAdd(One, slippage_percent))
                   ELSE RMul(entry_price, RSub(One, slippage_percent))
        entry_fees == RMul(RMul(position_size, slipped), fee_percent)
    IN  [entry_time    |-> timestamp,
         exit_time     |-> NoTime,
         symbol        |-> symbol,
         side          |-> side,
         entry_price   |-> slipped,
         exit_price    |-> NoPrice,
         stop_loss     |-> stop_loss,
         take_profits  |-> take_profits,
         position_size |-> position_size,
         pnl           |-> Zero,
         pnl_percent   |-> Zero,
         r_multiple    |-> Zero,
         exit_reason   |-> "",
         fees          |-> entry_fees,
         status        |-> "OPEN"]

\* mutant: the `if position_size <= 0: return None` guard is missing
enter_trade_NoGuard(self, timestamp, symbol, side, entry_price, stop_loss, take_profits) ==
    LET trade == NewTrade(self, timestamp, symbol, side, entry_price, stop_loss,
                          take_profits)
    IN  [self |-> [self EXCEPT !.open_trades = Append(@, trade)], ret |-> trade]

\* mutant: the entry fee is taken from the capital when the trade is opened
enter_trade_FeeAtEntry(self, timestamp, symbol, side, entry_price, stop_loss, take_profits) ==
    LET position_size == calculate_position_size(self, entry_price, stop_loss, side)
        trade == NewTrade(self, timestamp, symbol, side, entry_price, stop_loss,
                          take_profits)
    IN  IF RLe(position_size, Zero)
        THEN [self |-> self, ret |-> None]
        ELSE [self |-> [self EXCEPT !.open_trades = Append(@, trade),
                                    !.capital = RSub(@, trade.fees)],
              ret  |-> trade]

\* returns [self, ret]: the instance afterwards and the value returned
enter_trade(self, timestamp, symbol, side, entry_price, stop_loss, take_profits) ==
    LET position_size == calculate_position_size(self, entry_price, stop_loss, side)
        trade == NewTrade(self, timestamp, symbol, side, entry_price, stop_loss,
                          take_profits)
    IN  IF RLe(position_size, Zero)
        THEN [self |-> self, ret |-> None]
        ELSE [self |-> [self EXCEPT !.open_trades = Append(@, trade)],
              ret  |-> trade]

\* list.remove(x): drops the first element equal to x
ListRemove(s, x) ==
    LET k == CHOOSE k \in 1..Len(s) : s[k] = x /\ \A j \in 1..(k - 1) : s[j] # x
    IN  SubSeq(s, 1, k - 1) \o SubSeq(s, k + 1, Len(s))

\* mutant: the P&L of LONG and SHORT are swapped
_exit_trade_SwappedSides(self, trade, exit_price, timestamp, reason) ==
    LET slipped == IF trade.side = "LONG"
                   THEN RMul(exit_price, RSub(One, slippage_percent))
                   ELSE RMul(exit_price, RAdd(One, slippage_percent))
        exit_fees == RMul(RMul(trade.position_size, slipped), fee_percent)
        gross == IF trade.side = "SHORT"
                 THEN RMul(RSub(slipped, trade.entry_price), trade.position_size)
                 ELSE RMul(RSub(trade.entry_price, slipped), trade.position_size)
        pnl == RSub(gross, RAdd(trade.fees, exit_fees))
        risk_amount == RMul(self.capital, risk_per_trade)
        r_multiple == IF RGt(risk_amount, Zero) THEN RDiv(pnl, risk_amount) ELSE Zero
        closed == [trade EXCEPT
                     !.exit_time   = timestamp,
                     !.exit_price  = slipped,
                     !.pnl         = pnl,
                     !.pnl_percent = RMul(RDiv(pnl, RMul(trade.position_size,
                                                         trade.entry_price)),
                                          Num(100)),
                     !.r_multiple  = r_multiple,
                     !.exit_reason = reason,
                     !.fees        = RAdd(trade.fees, exit_fees),
                     !.status      = "CLOSED"]
    IN  [capital     |-> RAdd(self.capital, pnl),
         trades      |-> Append(self.trades, closed),
         open_trades |-> ListRemove(self.open_trades, trade)]

\* mutant: the trade stays in open_trades after it was closed
_exit_trade_NoRemove(self, trade, exit_price, timestamp, reason) ==
    LET slipped == IF trade.side = "LONG"
                   THEN RMul(exit_price, RSub(One, slippage_percent))
                   ELSE RMul(exit_price, RAdd(One, slippage_percent))
        exit_fees == RMul(RMul(trade.position_size, slipped), fee_percent)
        gross == IF trade.side = "LONG"
                 THEN RMul(RSub(slipped, trade.entry_price), trade.position_size)
                 ELSE RMul(RSub(trade.entry_price, slipped), trade.position_size)
        pnl == RSub(gross, RAdd(trade.fees, exit_fees))
        risk_amount == RMul(self.capital, risk_per_trade)
        r_multiple == IF RGt(risk_amount, Zero) THEN RDiv(pnl, risk_amount) ELSE Zero
        closed == [trade EXCEPT
                     !.exit_time   = timestamp,
                     !.exit_price  = slipped,
                     !.pnl         = pnl,
                     !.pnl_percent = RMul(RDiv(pnl, RMul(trade.position_size,
                                                         trade.entry_price)),
                                          Num(100)),
                     !.r_multiple  = r_multiple,
                     !.exit_reason = reason,
                     !.fees        = RAdd(trade.fees, exit_fees),
                     !.status      = "CLOSED"]
    IN  [capital     |-> RAdd(self.capital, pnl),
         trades      |-> Append(self.trades, closed),
         open_trades |-> self.open_trades]

\* mutant: the entry fee is subtracted from the P&L a second time
_exit_trade_EntryFeeTwice(self, trade, exit_price, timestamp, reason) ==
    LET slipped == IF trade.side = "LONG"
                   THEN RMul(exit_price, RSub(One, slippage_percent))
                   ELSE RMul(exit_price, RAdd(One, slippage_percent))
        exit_fees == RMul(RMul(trade.position_size, slipped), fee_percent)
        gross == IF trade.side = "LONG"
                 THEN RMul(RSub(slipped, trade.entry_price), trade.position_size)
                 ELSE RMul(RSub(trade.entry_price, slipped), trade.position_size)
        pnl == RSub(RSub(gross, RAdd(trade.fees, exit_fees)), trade.fees)
        risk_amount == RMul(self.capital, risk_per_trade)
        r_multiple == IF RGt(risk_amount, Zero) THEN RDiv(pnl, risk_amount) ELSE Zero
        closed == [trade EXCEPT
                     !.exit_time   = timestamp,
                     !.exit_price  = slipped,
                     !.pnl         = pnl,
                     !.pnl_percent = RMul(RDiv(pnl, RMul(trade.position_size,
                                                         trade.entry_price)),
                                          Num(100)),
                     !.r_multiple  = r_multiple,
                     !.exit_reason = reason,
                     !.fees        = RAdd(trade.fees, exit_fees),
                     !.status      = "CLOSED"]
    IN  [capital     |-> RAdd(self.capital, pnl),
         trades      |-> Append(self.trades, closed),
         open_trades |-> ListRemove(self.open_trades, trade)]

\* mutant: the risk amount is taken from the capital after the P&L was added
_exit_trade_RiskAfterUpdate(self, trade, exit_price, timestamp, reason) ==
    LET slipped == IF trade.side = "LONG"
                   THEN RMul(exit_price, RSub(One, slippage_percent))
                   ELSE RMul(exit_price, RAdd(One, slippage_percent))
        exit_fees == RMul(RMul(trade.position_size, slipped), fee_percent)
        gross == IF trade.side = "LONG"
                 THEN RMul(RSub(slipped, trade.entry_price), trade.position_size)
                 ELSE RMul(RSub(trade.entry_price, slipped), trade.position_size)
        pnl == RSub(gross, RAdd(trade.fees, exit_fees))
        risk_amount == RMul(RAdd(self.capital, pnl), risk_per_trade)
        r_multiple == IF RGt(risk_amount, Zero) THEN RDiv(pnl, risk_amount) ELSE Zero
        closed == [trade EXCEPT
                     !.exit_time   = timestamp,
                     !.exit_price  = slipped,
                     !.pnl         = pnl,
                     !.pnl_percent = RMul(RDiv(pnl, RMul(trade.position_size,
                                                         trade.entry_price)),
                                          Num(100)),
                     !.r_multiple  = r_multiple,
                     !.exit_reason = reason,
                     !.fees        = RAdd(trade.fees, exit_fees),
                     !.status      = "CLOSED"]
    IN  [capital     |-> RAdd(self.capital, pnl),
         trades      |-> Append(self.trades, closed),
         open_trades |-> ListRemove(self.open_trades, trade)]

\* mutant: the capital is credited with the P&L before fees
_exit_trade_CapitalPlusGross(self, trade, exit_price, timestamp, reason) ==
    LET slipped == IF trade.side = "LONG"
                   THEN RMul(exit_price, RSub(One, slippage_percent))
                   ELSE RMul(exit_price, RAdd(One, slippage_percent))
        exit_fees == RMul(RMul(trade.position_size, slipped), fee_percent)
        gross == IF trade.side = "LONG"
                 THEN RMul(RSub(slipped, trade.entry_price), trade.position_size)
                 ELSE RMul(RSub(trade.entry_price, slipped), trade.position_size)
        pnl == RSub(gross, RAdd(trade.fees, exit_fees))
        risk_amount == RMul(self.capital, risk_per_trade)
        r_multiple == IF RGt(risk_amount, Zero) THEN RDiv(pnl, risk_amount) ELSE Zero
        closed == [trade EXCEPT
                     !.exit_time   = timestamp,
                     !.exit_price  = slipped,
                     !.pnl         = pnl,
                     !.pnl_percent = RMul(RDiv(pnl, RMul(trade.position_size,
                                                         trade.entry_price)),
                                          Num(100)),
                     !.r_multiple  = r_multiple,
                     !.exit_reason = reason,
                     !.fees        = RAdd(trade.fees, exit_fees),
                     !.status      = "CLOSED"]
    IN  [capital     |-> RAdd(self.capital, gross),
         trades      |-> Append(self.trades, closed),
         open_trades |-> ListRemove(self.open_trades, trade)]

_exit_trade(self, trade, exit_price, timestamp, reason) ==
    LET slipped == IF trade.side = "LONG"
                   THEN RMul(exit_price, RSub(One, slippage_percent))
                   ELSE RMul(exit_price, RAdd(One, slippage_percent))
        exit_fees == RMul(RMul(trade.position_size, slipped), fee_percent)
        gross == IF trade.side = "LONG"
                 THEN RMul(RSub(slipped, trade.entry_price), trade.position_size)
                 ELSE RMul(RSub(trade.entry_price, slipped), trade.position_size)
        pnl == RSub(gross, RAdd(trade.fees, exit_fees))
        risk_amount == RMul(self.capital, risk_per_trade)
        r_multiple == IF RGt(risk_amount, Zero) THEN RDiv(pnl, risk_amount) ELSE Zero
        closed == [trade EXCEPT
                     !.exit_time   = timestamp,
                     !.exit_price  = slipped,
                     !.pnl         = pnl,
                     !.pnl_percent = RMul(RDiv(pnl, RMul(trade.position_size,
                                                         trade.entry_price)),
                                          Num(100)),
                     !.r_multiple  = r_multiple,
                     !.exit_reason = reason,
                     !.fees        = RAdd(trade.fees, exit_fees),
                     !.status      = "CLOSED"]
    IN  [capital     |-> RAdd(self.capital, pnl),
         trades      |-> Append(self.trades, closed),
         open_trades |-> ListRemove(self.open_trades, trade)]

\* mutant: f'TP{i}', the 0-based index
TPReason_ZeroBased(k) == "TP" \o ToString(k - 1)

\* f'TP{i+1}' for the 0-based index i = k - 1
TPReason(k) == "TP" \o ToString(k)

\* the take-profit levels of `trade` the bar reaches, as 1-based list indices
TPReached(trade, high, low) ==
    { k \in 1..Len(trade.take_profits) :
        IF trade.side = "LONG"
        THEN RGe(high, trade.take_profits[k])
        ELSE RLe(low, trade.take_profits[k]) }

StopReached(trade, high, low) ==
    IF trade.side = "LONG"
    THEN RLe(low, trade.stop_loss)
    ELSE RGe(high, trade.stop_loss)

Min(S) == CHOOSE x \in S : \A y \in S : x <= y

\* mutant: the take-profit loop runs before the stop check
ExitDecision_TPFirst(trade, high, low) ==
    IF TPReached(trade, high, low) # {}
    THEN LET k == Min(TPReached(trade, high, low))
         IN  [exit |-> TRUE, price |-> trade.take_profits[k], reason |-> TPReason(k)]
    ELSE IF StopReached(trade, high, low)
    THEN [exit |-> TRUE, price |-> trade.stop_loss, reason |-> "STOP_LOSS"]
    ELSE [exit |-> FALSE, price |-> NoPrice, reason |-> ""]

\* mutant: the loop keeps going and the last level reached wins
ExitDecision_LastTP(trade, high, low) ==
    IF StopReached(trade, high, low)
    THEN [exit |-> TRUE, price |-> trade.stop_loss, reason |-> "STOP_LOSS"]
    ELSE IF TPReached(trade, high, low) # {}
    THEN LET k == CHOOSE x \in TPReached(trade, high, low) :
                      \A y \in TPReached(trade, high, low) : y <= x
         IN  [exit |-> TRUE, price |-> trade.take_profits[k], reason |-> TPReason(k)]
    ELSE [exit |-> FALSE, price |-> NoPrice, reason |-> ""]

\* mutant: of the levels the bar reaches, the most profitable one is taken
ExitDecision_BestTP(trade, high, low) ==
    IF StopReached(trade, high, low)
    THEN [exit |-> TRUE, price |-> trade.stop_loss, reason |-> "STOP_LOSS"]
    ELSE IF TPReached(trade, high, low) # {}
    THEN LET k == CHOOSE x \in TPReached(trade, high, low) :
                      \A y \in TPReached(trade, high, low) :
                          IF trade.side = "LONG"
                          THEN RGe(trade.take_profits[x], trade.take_profits[y])
                          ELSE RLe(trade.take_profits[x], trade.take_profits[y])
         IN  [exit |-> TRUE, price |-> trade.take_profits[k], reason |-> TPReason(k)]
    ELSE [exit |-> FALSE, price |-> NoPrice, reason |-> ""]

\* what check_exit hands to _exit_trade: [exit, price, reason]
ExitDecision(trade, high, low) ==
    IF StopReached(trade, high, low)
    THEN [exit |-> TRUE, price |-> trade.stop_loss, reason |-> "STOP_LOSS"]
    ELSE IF TPReached(trade, high, low) # {}
    THEN LET k == Min(TPReached(trade, high, low))
         IN  [exit |-> TRUE, price |-> trade.take_profits[k], reason |-> TPReason(k)]
    ELSE [exit |-> FALSE, price |-> NoPrice, reason |-> ""]

\* returns [self, ret]
check_exit(self, trade, current_price, high, low, timestamp) ==
    LET d == ExitDecision(trade, high, low)
    IN  IF d.exit
        THEN [self |-> _exit_trade(self, trade, d.price, timestamp, d.reason),
              ret  |-> TRUE]
        ELSE [self |-> self, ret |-> FALSE]

-----------------------------------------------------------------------------
(* Backtester._calculate_results.  The Sharpe and Sortino quotients involve *)
(* a square root and are kept as the symbol Quotient: the model computes    *)
(* which branch of their guard is taken, not their value.                   *)

RECURSIVE SumPnl(_, _)
\* sum(t.pnl for t in ts if keep(t.pnl)), keep in {"all", "pos", "neg"}
SumPnl(ts, keep) ==
    IF ts = <<>> THEN Zero
    ELSE LET p == Head(ts).pnl
             take == \/ keep = "all"
                     \/ keep = "pos" /\ RGt(p, Zero)
                     \/ keep = "neg" /\ RLt(p, Zero)
         IN  RAdd(IF take THEN p ELSE Zero, SumPnl(Tail(ts), keep))

RECURSIVE Accumulate(_, _, _, _)
\* np.maximum.accumulate over xs[lo..hi], entered with the running maximum
\* peak of xs[1..lo-1]; the range is halved to keep the evaluation shallow
Accumulate(xs, lo, hi, peak) ==
    IF lo = hi
    THEN << IF xs[lo] # peak /\ RGt(xs[lo], peak) THEN xs[lo] ELSE peak >>
    ELSE LET mid  == (lo + hi) \div 2
             left == Accumulate(xs, lo, mid, peak)
         IN  left \o Accumulate(xs, mid + 1, hi, left[Len(left)])

RECURSIVE MinOf(_, _, _)
\* min(xs[lo..hi]) of a non-empty range, halved the same way
MinOf(xs, lo, hi) ==
    IF lo = hi THEN xs[lo]
    ELSE LET mid == (lo + hi) \div 2
             a   == MinOf(xs, lo, mid)
             b   == MinOf(xs, mid + 1, hi)
         IN  IF b # a /\ RLt(b, a) THEN b ELSE a

\* mutant: the fall from the running maximum is divided by the equity itself
Drawdown_OverEquity(curve) ==
    LET running_max == Accumulate(curve, 1, Len(curve), curve[1])
    IN  [k \in 1..Len(curve) |->
           IF curve[k] = running_max[k] THEN Zero
           ELSE RMul(RDiv(RSub(curve[k], running_max[k]), curve[k]), Num(100))]

\* (equity_array - running_max) / running_max * 100; a point at its running
\* maximum gives 0 / running_max * 100 = 0
Drawdown(curve) ==
    LET running_max == Accumulate(curve, 1, Len(curve), curve[1])
    IN  [k \in 1..Len(curve) |->
           IF curve[k] = running_max[k] THEN Zero
           ELSE RMul(RDiv(RSub(curve[k], running_max[k]), running_max[k]), Num(100))]

\* equity_array - running_max
DrawdownAbs(curve) ==
    LET running_max == Accumulate(curve, 1, Len(curve), curve[1])
    IN  [k \in 1..Len(curve) |->
           IF curve[k] = running_max[k] THEN Zero ELSE RSub(curve[k], running_max[k])]

\* np.diff(equity_array) / equity_array[:-1]; two equal consecutive points
\* give 0 / equity = 0
Returns(curve) ==
    [k \in 1..(Len(curve) - 1) |->
       IF curve[k + 1] = curve[k] THEN Zero
       ELSE RDiv(RSub(curve[k + 1], curve[k]), curve[k])]

\* np.std(xs) > 0 for a non-empty array: its elements are not all equal
StdPositive(xs) == \E k \in 1..Len(xs) : xs[k] # xs[1]

\* (np.mean(returns) / np.std(...)) * np.sqrt(252), not computed
Quotient == [quotient |-> "mean / std * sqrt(252)"]

\* mutant: profit_factor without the gross_loss > 0 guard of the other ratios
ProfitFactor_ProfitWhenNoLoss(gross_profit, gross_loss) ==
    IF RGt(gross_loss, Zero) THEN RDiv(gross_profit, gross_loss) ELSE gross_profit

\* `(gross_profit / gross_loss) if gross_loss > 0 else 0`
ProfitFactor(gross_profit, gross_loss) ==
    IF RGt(gross_loss, Zero) THEN RDiv(gross_profit, gross_loss) ELSE Zero

_calculate_results(self, curve, dates, n) ==
    LET total_trades   == Len(self.trades)
        winning_trades == Cardinality({k \in 1..Len(self.trades) :
                                         RGt(self.trades[k].pnl, Zero)})
        losing_trades  == Cardinality({k \in 1..Len(self.trades) :
                                         RLt(self.trades[k].pnl, Zero)})
        gross_profit   == SumPnl(self.trades, "pos")
        gross_loss     == LET l == SumPnl(self.trades, "neg")
                          IN  IF RLt(l, Zero) THEN RNeg(l) ELSE l
        net_profit     == RSub(self.capital, initial_capital)
        drawdown       == Drawdown(curve)
        lowest         == MinOf(drawdown, 1, Len(drawdown))
        max_drawdown_percent == IF RLt(lowest, Zero) THEN RNeg(lowest) ELSE lowest
        lowest_abs     == MinOf(DrawdownAbs(curve), 1, Len(curve))
        returns        == Returns(curve)
        negative_returns == SelectSeq(returns, LAMBDA x : RLt(x, Zero))
        total_return_percent == RMul(RDiv(net_profit, initial_capital), Num(100))
    IN
    [start_date       |-> 0,
     end_date         |-> n - 1,
     initial_capital  |-> initial_capital,
     final_capital    |-> self.capital,
     total_return     |-> RSub(self.capital, initial_capital),
     total_return_percent |-> total_return_percent,
     total_trades     |-> total_trades,
     winning_trades   |-> winning_trades,
     losing_trades    |-> losing_trades,
     breakeven_trades |-> Cardinality({k \in 1..Len(self.trades) :
                                         self.trades[k].pnl = Zero}),
     win_rate         |-> IF total_trades > 0
                          THEN RMul(Rat(winning_trades, total_trades), Num(100))
                          ELSE Zero,
     gross_profit     |-> gross_profit,
     gross_loss       |-> gross_loss,
     net_profit       |-> net_profit,
     profit_factor    |-> ProfitFactor(gross_profit, gross_loss),
     average_win      |-> IF winning_trades > 0
                          THEN RDiv(gross_profit, Num(winning_trades)) ELSE Zero,
     average_loss     |-> IF losing_trades > 0
                          THEN RDiv(gross_loss, Num(losing_trades)) ELSE Zero,
     max_drawdown     |-> IF RLt(lowest_abs, Zero) THEN RNeg(lowest_abs) ELSE lowest_abs,
     max_drawdown_percent |-> max_drawdown_percent,
     sharpe_ratio     |-> IF Len(returns) > 0 /\ StdPositive(returns)
                          THEN Quotient ELSE Zero,
     sortino_ratio    |-> IF Len(negative_returns) > 0 /\ StdPositive(negative_returns)
                          THEN Quotient ELSE Zero,
     calmar_ratio     |-> IF RGt(max_drawdown_percent, Zero)
                          THEN RDiv(total_return_percent, max_drawdown_percent)
                          ELSE Zero,
     equity_curve     |-> curve,
     equity_dates     |-> dates,
     drawdown_curve   |-> drawdown,
     trades           |-> self.trades]

-----------------------------------------------------------------------------
(* Backtester.run_backtest *)

Self == [capital |-> capital, trades |-> trades, open_trades |-> open_trades]

Symbol == "BTCUSDT"

Prices(list) == [k \in 1..Len(list) |-> Num(list[k])]

RECURSIVE CheckExits(_, _, _, _)
\* `for trade in self.open_trades.copy(): self.check_exit(...)`
CheckExits(self, copy, r, timestamp) ==
    IF copy = <<>> THEN self
    ELSE CheckExits(check_exit(self, Head(copy), Num(r.close), Num(r.high),
                               Num(r.low), timestamp).self,
                    Tail(copy), r, timestamp)

\* mutant: the `len(self.open_trades) == 0` test is missing
MaybeEnter_NoLimit(self, sig, timestamp) ==
    IF sig # None
    THEN enter_trade(self, timestamp, Symbol, sig.side, Num(sig.entry_price),
                     Num(sig.stop_loss), Prices(sig.take_profits)).self
    ELSE self

\* `if signal and len(self.open_trades) == 0: self.enter_trade(...)`
MaybeEnter(self, sig, timestamp) ==
    IF sig # None /\ Len(self.open_trades) = 0
    THEN enter_trade(self, timestamp, Symbol, sig.side, Num(sig.entry_price),
                     Num(sig.stop_loss), Prices(sig.take_profits)).self
    ELSE self

\* mutant: the loop that closes the remaining open trades is missing
CloseRemaining_Skip(self, copy, last, timestamp) == self

RECURSIVE CloseRemaining(_, _, _, _)
\* `for trade in self.open_trades.copy(): self._exit_trade(..., 'END_OF_DATA')`
CloseRemaining(self, copy, last, timestamp) ==
    IF copy = <<>> THEN self
    ELSE CloseRemaining(_exit_trade(self, Head(copy), Num(last.close), timestamp,
                                    "END_OF_DATA"),
                        Tail(copy), last, timestamp)

\* mutant: a point is appended only when the capital has changed
RecordEquity_OnChange(curve, cap) ==
    IF curve[Len(curve)] = cap THEN curve ELSE Append(curve, cap)

\* `self.equity_curve.append(self.capital)`
RecordEquity(curve, cap) == Append(curve, cap)

\* mutant: the evaluator is queried from the first bar on
WarmedUp_Always(idx) == TRUE

\* `if i >= 200:` the warm-up test that guards the evaluator call
WarmedUp(idx) == idx >= WarmUp

\* the instance fields that run_backtest assigns
Instance ==
    [capital |-> capital, equity_curve |-> equity_curve,
     equity_dates |-> equity_dates, trades |-> trades, open_trades |-> open_trades]

\* mutant: the closed-trade list of the previous run is kept
ResetFields_KeepTrades(inst, n) ==
    [capital      |-> initial_capital,
     equity_curve |-> <<initial_capital>>,
     equity_dates |-> IF n = 0 THEN inst.equity_dates ELSE <<0>>,
     trades       |-> inst.trades,
     open_trades  |-> IF n = 0 THEN inst.open_trades ELSE <<>>,
     raised       |-> n = 0]

\* "Reset state" on a series of n bars: df.index[0] raises IndexError on an
\* empty series, after capital and equity_curve were reset
ResetFields(inst, n) ==
    [capital      |-> initial_capital,
     equity_curve |-> <<initial_capital>>,
     equity_dates |-> IF n = 0 THEN inst.equity_dates ELSE <<0>>,
     trades       |-> IF n = 0 THEN inst.trades ELSE <<>>,
     open_trades  |-> IF n = 0 THEN inst.open_trades ELSE <<>>,
     raised       |-> n = 0]

\* mutant: the entry is considered before the exits are resolved
LoopBody_EntryFirst(inst, idx, r, sig) ==
    LET self    == [capital |-> inst.capital, trades |-> inst.trades,
                    open_trades |-> inst.open_trades]
        entered == IF WarmedUp(idx) THEN MaybeEnter(self, sig, idx) ELSE self
        exited  == CheckExits(entered, entered.open_trades, r, idx)
    IN  [capital      |-> exited.capital,
         equity_curve |-> RecordEquity(inst.equity_curve, exited.capital),
         equity_dates |-> Append(inst.equity_dates, idx),
         trades       |-> exited.trades,
         open_trades  |-> exited.open_trades]

\* the body of `for i in range(len(df))` at index idx, on the row r = df.iloc[idx];
\* sig is what the evaluator returns when it is queried at idx
LoopBody(inst, idx, r, sig) ==
    LET self    == [capital |-> inst.capital, trades |-> inst.trades,
                    open_trades |-> inst.open_trades]
        exited  == CheckExits(self, self.open_trades, r, idx)
        entered == IF WarmedUp(idx) THEN MaybeEnter(exited, sig, idx) ELSE exited
    IN  [capital      |-> entered.capital,
         equity_curve |-> RecordEquity(inst.equity_curve, entered.capital),
         equity_dates |-> Append(inst.equity_dates, idx),
         trades       |-> entered.trades,
         open_trades  |-> entered.open_trades]

\* the entry the evaluator call at index idx leaves in the log: the length of
\* the frame df.iloc[:idx+1] it was handed and whether it proposed a trade
Query(idx, sig) == [len |-> idx + 1, proposed |-> sig # None]

\* the constructor
Init ==
    /\ pc = "idle"
    /\ i = 0
    /\ ndf \in Lengths
    /\ row = None
    /\ signal = None
    /\ \E c \in Configs :
         /\ initial_capital = c.initial_capital
         /\ risk_per_trade = c.risk_per_trade
         /\ fee_percent = c.fee_percent
         /\ slippage_percent = c.slippage_percent
         /\ capital = c.initial_capital
         /\ equity_curve = <<c.initial_capital>>
    /\ equity_dates = <<>>
    /\ trades = <<>>
    /\ open_trades = <<>>
    /\ result = None
    /\ size_args = None
    /\ size_ret = None
    /\ queried = <<>>
    /\ df = <<>>
    /\ evaluator = None
    /\ run = 0
    /\ first_result = None
    /\ other = None
    /\ ev_call = None
    /\ ev_frame = None
    /\ ev_ret = None

\* the start of a run_backtest call: "Reset state"
StartRun ==
    LET f == ResetFields(Instance, ndf)
    IN  /\ capital' = f.capital
        /\ equity_curve' = f.equity_curve
        /\ equity_dates' = f.equity_dates
        /\ trades' = f.trades
        /\ open_trades' = f.open_trades
        /\ pc' = IF f.raised THEN "raised" ELSE "loop"
        /\ i' = 0
        /\ row' = None
        /\ signal' = None
        /\ queried' = <<>>
        /\ run' = run + 1

\* run_backtest is called on the instance the constructor returned
Reset ==
    /\ pc = "idle"
    /\ StartRun
    /\ UNCHANGED <<argvars, configvars, result, first_result, other, callvars>>

\* one iteration of `for i in range(len(df))`
Iteration ==
    /\ pc = "loop"
    /\ i < ndf
    /\ \E r \in Rows :
       \E sig \in IF WarmedUp(i) THEN Signals \cup {None} ELSE {signal} :
       \E body \in {LoopBody(Instance, i, r, sig)} :
             /\ row' = r
             /\ signal' = sig
             /\ capital' = body.capital
             /\ trades' = body.trades
             /\ open_trades' = body.open_trades
             /\ equity_curve' = body.equity_curve
             /\ equity_dates' = body.equity_dates
             /\ queried' = IF WarmedUp(i) THEN Append(queried, Query(i, sig))
                           ELSE queried
    /\ i' = i + 1
    /\ UNCHANGED <<pc, argvars, configvars, result, run, first_result, other,
                   callvars>>

\* after the loop: close what is still open, compute and return the result
Finish ==
    /\ pc = "loop"
    /\ i = ndf
    /\ LET closed == CloseRemaining(Self, open_trades, row, ndf - 1)
       IN  /\ capital' = closed.capital
           /\ trades' = closed.trades
           /\ open_trades' = closed.open_trades
           /\ result' = _calculate_results(closed, equity_curve, equity_dates, ndf)
    /\ pc' = "done"
    /\ UNCHANGED <<i, row, signal, argvars, configvars, equity_curve, equity_dates,
                   queried, run, first_result, other, callvars>>

Next == Reset \/ Iteration \/ Finish

Spec == Init /\ [][Next]_vars

-----------------------------------------------------------------------------
(* calculate_position_size called on its own, on an instance whose capital  *)
(* and risk_per_trade are drawn from small sets                             *)

\* largest distance between the stop and the entry price of a direct call
MaxStopDistance == 3

SizePrices == (100 - MaxStopDistance) .. (100 + MaxStopDistance)

InitSize ==
    /\ pc = "size_call"
    /\ i = 0
    /\ ndf = 0
    /\ row = None
    /\ signal = None
    /\ initial_capital \in {Num(10000), Num(1000)}
    /\ risk_per_trade \in {Rat(1, 100), Rat(15, 1000)}
    /\ fee_percent = Rat(4, 10000)
    /\ slippage_percent = Rat(5, 10000)
    /\ capital = initial_capital
    /\ equity_curve = <<initial_capital>>
    /\ equity_dates = <<>>
    /\ trades = <<>>
    /\ open_trades = <<>>
    /\ result = None
    /\ size_args \in [entry_price : SizePrices, stop_loss : SizePrices, side : Sides]
    /\ size_ret = None
    /\ queried = <<>>
    /\ df = <<>>
    /\ evaluator = None
    /\ run = 0
    /\ first_result = None
    /\ other = None
    /\ ev_call = None
    /\ ev_frame = None
    /\ ev_ret = None

CalcSize ==
    /\ pc = "size_call"
    /\ size_ret' = calculate_position_size(Self, Num(size_args.entry_price),
                                           Num(size_args.stop_loss), size_args.side)
    /\ pc' = "size_done"
    /\ UNCHANGED <<i, row, signal, argvars, configvars, capital, equity_curve,
                   equity_dates, trades, open_trades, result, size_args, queried, run,
                   first_result, other, ev_call, ev_frame, ev_ret>>

NextSize == CalcSize

SpecSize == InitSize /\ [][NextSize]_vars

-----------------------------------------------------------------------------
(* The signal evaluators.  A frame is the DataFrame object an evaluator is  *)
(* handed: its length, its column names and its last two rows (df.iloc[-2], *)
(* df.iloc[-1], the only rows the evaluators read), with, under `ta`, the   *)
(* values the StochRSIIndicator of the ta library computes for those rows.  *)
(* Indicator values are integers; prices derived from them stay integers    *)
(* (the Stochastic-RSI multiples 1.5 and 2.5 are applied to an even atr).   *)

\* the columns of an indicator-augmented series (DataFetcher.calculate_indicators)
Columns ==
    {"open", "high", "low", "close", "volume", "ema_8", "ema_21", "ema_50",
     "ema_200", "rsi", "atr", "volume_ma", "bb_middle", "bb_std", "bb_upper",
     "bb_lower"}

\* number of checks of a list that hold
Count(checks) == Cardinality({k \in 1..Len(checks) : checks[k]})

\* mutant: the previous bar is not consulted
EmaCross_CurrentOnly(previous, current) ==
    [bullish |-> current.ema_8 > current.ema_21,
     bearish |-> current.ema_8 < current.ema_21]

\* ema_cross_bullish, ema_cross_bearish
EmaCross(previous, current) ==
    [bullish |-> previous.ema_8 <= previous.ema_21 /\ current.ema_8 > current.ema_21,
     bearish |-> previous.ema_8 >= previous.ema_21 /\ current.ema_8 < current.ema_21]

\* `current['volume'] / current['volume_ma'] if current['volume_ma'] > 0 else 0`
VolumeRatio(current) ==
    IF current.volume_ma > 0 THEN Rat(current.volume, current.volume_ma) ELSE Zero

\* the five auxiliary checks of the optimized and relaxed evaluators, in the
\* order of the code, for the side of the crossover
AuxiliaryChecks(current, side, strength, rsi_low, rsi_high, volume_factor) ==
    LET ema_distance ==
            RMul(Rat(IF side = "LONG" THEN current.close - current.ema_50
                     ELSE current.ema_50 - current.close, current.ema_50), Num(100))
    IN  << IF side = "LONG" THEN current.close > current.ema_50
           ELSE current.close < current.ema_50,
           RGt(ema_distance, strength),
           rsi_low < current.rsi /\ current.rsi < rsi_high,
           RGt(VolumeRatio(current), volume_factor),
           IF side = "LONG" THEN current.close > current.ema_200
           ELSE current.close < current.ema_200 >>

\* mutant: a count equal to the minimum is rejected
Enough_Strict(confirmations, minimum) == confirmations > minimum

\* `if confirmations >= 5:` (optimized), `if confirmations >= 4:` (relaxed)
Enough(confirmations, minimum) == confirmations >= minimum

\* mutant: the levels of a SHORT are those of a LONG
EmaLevels_ShortNotMirrored(side, current) ==
    [side         |-> side,
     entry_price  |-> current.close,
     stop_loss    |-> current.close - current.atr * 2,
     take_profits |-> <<current.close + current.atr * 3,
                        current.close + current.atr * 5,
                        current.close + current.atr * 7>>]

\* the ATR-based stop and targets of the EMA-crossover evaluators
EmaLevels(side, current) ==
    IF side = "LONG"
    THEN [side         |-> "LONG",
          entry_price  |-> current.close,
          stop_loss    |-> current.close - current.atr * 2,
          take_profits |-> <<current.close + current.atr * 3,
                             current.close + current.atr * 5,
                             current.close + current.atr * 7>>]
    ELSE [side         |-> "SHORT",
          entry_price  |-> current.close,
          stop_loss    |-> current.close + current.atr * 2,
          take_profits |-> <<current.close - current.atr * 3,
                             current.close - current.atr * 5,
                             current.close - current.atr * 7>>]

\* a record with the fields of both, those of `more` taking precedence
Update(base, more) ==
    [f \in DOMAIN base \cup DOMAIN more |->
       IF f \in DOMAIN more THEN more[f] ELSE base[f]]

simple_ema_crossover_signals(frame) ==
    IF frame.len < 2 THEN None
    ELSE LET current  == frame.current
             previous == frame.previous
         IN  IF /\ previous.ema_8 <= previous.ema_21
                /\ current.ema_8 > current.ema_21
                /\ current.close > current.ema_50
             THEN EmaLevels("LONG", current)
             ELSE None

optimized_ema_crossover_signals(frame) ==
    IF frame.len < 2 THEN None
    ELSE LET current  == frame.current
             cross    == EmaCross(frame.previous, current)
             side     == IF cross.bullish THEN "LONG" ELSE "SHORT"
             confirmations ==
                 1 + Count(AuxiliaryChecks(current, side, Rat(5, 10), 30, 70,
                                           Rat(15, 10)))
         IN  IF ~(cross.bullish \/ cross.bearish) THEN None
             ELSE IF Enough(confirmations, 5)
             THEN Update(EmaLevels(side, current), [confirmations |-> confirmations])
             ELSE None

relaxed_ema_crossover_signals(frame, debug) ==
    IF frame.len < 2 THEN None
    ELSE LET current  == frame.current
             cross    == EmaCross(frame.previous, current)
             side     == IF cross.bullish THEN "LONG" ELSE "SHORT"
             confirmations ==
                 1 + Count(AuxiliaryChecks(current, side, Rat(3, 10), 25, 75,
                                           Rat(12, 10)))
             debug_info == [has_signal |-> FALSE, confirmations |-> 0,
                            checks |-> "checks", mode |-> "RELAXED (4/6 needed)"]
             counted == Update(debug_info,
                               [confirmations |-> confirmations, side |-> side])
             signal_ == Update(EmaLevels(side, current),
                               [confirmations |-> confirmations,
                                debug |-> IF debug THEN "checks" ELSE None])
         IN  IF ~(cross.bullish \/ cross.bearish)
             THEN IF debug
                  THEN Update(debug_info, [reason |-> "No EMA crossover detected"])
                  ELSE None
             ELSE IF Enough(confirmations, 4)
             THEN IF debug
                  THEN Update(Update(counted, [has_signal |-> TRUE]), signal_)
                  ELSE signal_
             ELSE IF debug
                  THEN Update(counted, [reason |-> "Only n/6 confirmations (need 4+)"])
                  ELSE None

\* the columns stochastic_rsi_strategy assigns on the frame it is handed
StochColumns == {"stoch_rsi", "stoch_rsi_k", "stoch_rsi_d"}

\* the stop and targets of the Stochastic-RSI evaluator: 1.5, 1.5, 2.5 and 4.0
\* times the atr
StochLevels(side, current) ==
    IF side = "LONG"
    THEN [side         |-> "LONG",
          entry_price  |-> current.close,
          stop_loss    |-> current.close - (current.atr * 3) \div 2,
          take_profits |-> <<current.close + (current.atr * 3) \div 2,
                             current.close + (current.atr * 5) \div 2,
                             current.close + current.atr * 4>>]
    ELSE [side         |-> "SHORT",
          entry_price  |-> current.close,
          stop_loss    |-> current.close + (current.atr * 3) \div 2,
          take_profits |-> <<current.close - (current.atr * 3) \div 2,
                             current.close - (current.atr * 5) \div 2,
                             current.close - current.atr * 4>>]

\* returns [frame, ret]: the frame object afterwards and the value returned
stochastic_rsi_strategy(frame, debug) ==
    IF frame.len < 30 THEN [frame |-> frame, ret |-> None]
    ELSE
    LET framed == [frame EXCEPT !.columns  = @ \cup StochColumns,
                                !.previous = Update(@, frame.ta.previous),
                                !.current  = Update(@, frame.ta.current)]
        current  == framed.current
        previous == framed.previous
        debug_info == [has_signal |-> FALSE, side |-> None, confirmations |-> 0,
                       checks |-> "checks", reason |-> ""]
        oversold == current.stoch_rsi <= 30
        oversold_bounce == previous.stoch_rsi < 25 /\ current.stoch_rsi >= 25
        k_cross_d_bullish == /\ previous.stoch_rsi_k <= previous.stoch_rsi_d
                             /\ current.stoch_rsi_k > current.stoch_rsi_d
        overbought == current.stoch_rsi >= 75
        overbought_rejection == previous.stoch_rsi > 75 /\ current.stoch_rsi <= 75
        k_cross_d_bearish == /\ previous.stoch_rsi_k >= previous.stoch_rsi_d
                             /\ current.stoch_rsi_k < current.stoch_rsi_d
        flat_trend == RLt(Rat(Abs(current.ema_21 - current.ema_50), current.ema_50),
                          Rat(5, 1000))
        volume_ok == current.volume > frame.ta.vol_ma
        side == IF oversold \/ oversold_bounce THEN "LONG" ELSE "SHORT"
        confirmations ==
            IF side = "LONG"
            THEN Count(<<oversold, oversold_bounce, k_cross_d_bullish,
                         current.ema_21 > current.ema_50 \/ flat_trend,
                         volume_ok, current.rsi > 20>>)
            ELSE Count(<<overbought, overbought_rejection, k_cross_d_bearish,
                         current.ema_21 < current.ema_50 \/ flat_trend,
                         volume_ok, current.rsi < 80>>)
        counted == Update(debug_info, [confirmations |-> confirmations, side |-> side])
        signal_ == Update(StochLevels(side, current),
                          [confirmations |-> confirmations,
                           debug |-> IF debug THEN "checks" ELSE None])
        ret == IF oversold \/ oversold_bounce \/ overbought \/ overbought_rejection
               THEN IF Enough(confirmations, 4)
                    THEN IF debug
                         THEN Update(Update(counted, [has_signal |-> TRUE]), signal_)
                         ELSE signal_
                    ELSE IF debug
                         THEN Update(counted,
                                     [reason |-> "Only n/6 confirmations (need 4+)"])
                         ELSE None
               ELSE IF debug
                    THEN Update(debug_info, [reason |-> "Stoch RSI in neutral zone"])
                    ELSE None
    IN  [frame |-> framed, ret |-> ret]

-----------------------------------------------------------------------------
(* The evaluators called on their own, on frames drawn from small sets *)

\* a row of an indicator-augmented series that triggers nothing
BaseRow ==
    [high |-> 1010, low |-> 990, close |-> 1000, ema_8 |-> 1000, ema_21 |-> 1000,
     ema_50 |-> 1000, ema_200 |-> 1000, rsi |-> 50, volume |-> 100,
     volume_ma |-> 100, atr |-> 2]

\* what the ta library computes on a frame that triggers nothing
BaseTa ==
    [previous |-> [stoch_rsi |-> 50, stoch_rsi_k |-> 50, stoch_rsi_d |-> 50],
     current  |-> [stoch_rsi |-> 50, stoch_rsi_k |-> 50, stoch_rsi_d |-> 50],
     vol_ma   |-> 100]

BaseFrame ==
    [len |-> WarmUp + 1, columns |-> Columns, previous |-> BaseRow,
     current |-> BaseRow, ta |-> BaseTa]

\* frames for the EMA-crossover evaluators: every relation of the two EMA
\* lines on both bars, values on both sides of each threshold, and a bar
\* without range (atr = 0)
EmaFrames ==
    { [BaseFrame EXCEPT !.previous.ema_8 = p8, !.current.ema_8 = c8,
                        !.current.close = cl, !.current.ema_200 = e200,
                        !.current.rsi = rsi, !.current.volume = vol,
                        !.current.volume_ma = vma, !.current.atr = atr] :
        atr \in {0, 2},
        p8 \in {999, 1000, 1001}, c8 \in {999, 1000, 1001},
        cl \in {994, 996, 998, 1002, 1004, 1006}, e200 \in {990, 1010},
        rsi \in {25, 28, 30, 50, 70, 72, 75}, vol \in {100, 130, 160},
        vma \in {0, 100} }

\* frames for the Stochastic-RSI evaluator
StochFrames ==
    { [BaseFrame EXCEPT !.ta.previous.stoch_rsi = ps, !.ta.current.stoch_rsi = cs,
                        !.ta.previous.stoch_rsi_k = pk,
                        !.ta.current.stoch_rsi_k = ck,
                        !.current.ema_21 = e21, !.current.volume = vol,
                        !.current.rsi = rsi] :
        ps \in {20, 50, 80}, cs \in {20, 25, 30, 50, 70, 75, 80},
        pk \in {40, 60}, ck \in {40, 60}, e21 \in {990, 998, 1010},
        vol \in {100, 130}, rsi \in {20, 50, 80} }

\* frames too short for an evaluator to look at
ShortFrames == { [BaseFrame EXCEPT !.len = n] : n \in {1, 2, 29, 30} }

EvaluatorNames == {"simple", "optimized", "relaxed", "stochastic"}

InitEval ==
    /\ pc = "eval_call"
    /\ i = 0
    /\ ndf = 0
    /\ row = None
    /\ signal = None
    /\ initial_capital = Num(1000)
    /\ risk_per_trade = Rat(1, 10)
    /\ fee_percent = Zero
    /\ slippage_percent = Zero
    /\ capital = initial_capital
    /\ equity_curve = <<initial_capital>>
    /\ equity_dates = <<>>
    /\ trades = <<>>
    /\ open_trades = <<>>
    /\ result = None
    /\ size_args = None
    /\ size_ret = None
    /\ queried = <<>>
    /\ df = <<>>
    /\ evaluator = None
    /\ run = 0
    /\ first_result = None
    /\ other = None
    /\ \E e \in EvaluatorNames :
       \E d \in IF e \in {"relaxed", "stochastic"} THEN BOOLEAN ELSE {FALSE} :
       \E f \in ShortFrames \cup (IF e = "stochastic" THEN StochFrames ELSE EmaFrames) :
         ev_call = [evaluator |-> e, debug |-> d, frame |-> f]
    /\ ev_frame = None
    /\ ev_ret = None

EvalUnchanged ==
    UNCHANGED <<i, row, signal, argvars, configvars, capital, equity_curve,
                equity_dates, trades, open_trades, result, size_args, size_ret,
                queried, run, first_result, other, ev_call>>

CallSimple ==
    /\ pc = "eval_call"
    /\ ev_call.evaluator = "simple"
    /\ ev_ret' = simple_ema_crossover_signals(ev_call.frame)
    /\ ev_frame' = ev_call.frame
    /\ pc' = "eval_done"
    /\ EvalUnchanged

CallOptimized ==
    /\ pc = "eval_call"
    /\ ev_call.evaluator = "optimized"
    /\ ev_ret' = optimized_ema_crossover_signals(ev_call.frame)
    /\ ev_frame' = ev_call.frame
    /\ pc' = "eval_done"
    /\ EvalUnchanged

CallRelaxed ==
    /\ pc = "eval_call"
    /\ ev_call.evaluator = "relaxed"
    /\ ev_ret' = relaxed_ema_crossover_signals(ev_call.frame, ev_call.debug)
    /\ ev_frame' = ev_call.frame
    /\ pc' = "eval_done"
    /\ EvalUnchanged

CallStochastic ==
    /\ pc = "eval_call"
    /\ ev_call.evaluator = "stochastic"
    /\ LET out == stochastic_rsi_strategy(ev_call.frame, ev_call.debug)
       IN  /\ ev_ret' = out.ret
           /\ ev_frame' = out.frame
    /\ pc' = "eval_done"
    /\ EvalUnchanged

\* the caller hands the proposal of a non-debug call to the backtester as
\* run_backtest does: `if signal and len(self.open_trades) == 0:
\* self.enter_trade(...)`, on the bar the frame ends with
EnterProposed ==
    /\ pc = "eval_done"
    /\ ~ev_call.debug
    /\ ev_ret # None
    /\ \E entered \in {MaybeEnter(Self, ev_ret, ev_call.frame.len - 1)} :
         /\ capital' = entered.capital
         /\ trades' = entered.trades
         /\ open_trades' = entered.open_trades
    /\ pc' = "eval_entered"
    /\ UNCHANGED <<i, row, signal, argvars, configvars, equity_curve, equity_dates,
                   result, queried, run, first_result, other, callvars>>

NextEval == CallSimple \/ CallOptimized \/ CallRelaxed \/ CallStochastic \/ EnterProposed

SpecEval == InitEval /\ [][NextEval]_vars

-----------------------------------------------------------------------------
(* run_backtest over a series fixed before the run, with one of the         *)
(* EMA-crossover evaluators, possibly called a second time on the instance  *)

\* a bar on which EMA(8) is below EMA(21): the bars of the warm-up window
FlatBar ==
    [high |-> 101, low |-> 99, close |-> 100, ema_8 |-> 99, ema_21 |-> 100,
     ema_50 |-> 99, ema_200 |-> 95, rsi |-> 50, volume |-> 160, volume_ma |-> 100,
     atr |-> 1]

\* a bar on which EMA(8) is above EMA(21): a bullish crossover after a flat bar
CrossBar == [FlatBar EXCEPT !.ema_8 = 101]

\* a rise through the first two targets of a LONG entered at 100
RiseBar == [FlatBar EXCEPT !.ema_8 = 101, !.high = 106, !.close = 104]

\* a fall through the stop of a LONG entered at 100, EMA(8) back below EMA(21)
FallBar == [FlatBar EXCEPT !.high = 99, !.low = 97, !.close = 98]

\* the bars after the warm-up window
SeriesRows == {FlatBar, CrossBar, RiseBar, FallBar}

WarmUpBars == [k \in 1..WarmUp |-> FlatBar]

SeriesSet ==
    {<<FlatBar>>} \cup
    { WarmUpBars \o extra :
        extra \in UNION { [1..n -> SeriesRows] : n \in 0..MaxExtraBars } }

\* the constructor arguments of the runs over a fixed series
SeriesConfigs == { c \in Configs : c.fee_percent = c.slippage_percent }

\* mutant: the evaluator is handed the whole series
FrameAt_Whole(series, idx) ==
    [len      |-> Len(series),
     columns  |-> Columns,
     previous |-> IF Len(series) >= 2 THEN series[Len(series) - 1] ELSE None,
     current  |-> series[Len(series)],
     ta       |-> BaseTa]

\* df.iloc[:idx+1] as the evaluator sees it: bars 0..idx, the last two of which
\* it reads
FrameAt(series, idx) ==
    [len      |-> idx + 1,
     columns  |-> Columns,
     previous |-> IF idx >= 1 THEN series[idx] ELSE None,
     current  |-> series[idx + 1],
     ta       |-> BaseTa]

\* generate_signals_func(frame) for the evaluator of that name
Evaluate(name, frame) ==
    CASE name = "simple"    -> simple_ema_crossover_signals(frame)
      [] name = "optimized" -> optimized_ema_crossover_signals(frame)
      [] name = "relaxed"   -> relaxed_ema_crossover_signals(frame, FALSE)

\* what the evaluator returns at index idx, None while it is not queried
SignalAt(series, name, idx) ==
    IF WarmedUp(idx) THEN Evaluate(name, FrameAt(series, idx)) ELSE None

InitSeries ==
    /\ pc = "idle"
    /\ i = 0
    /\ df \in SeriesSet
    /\ ndf = Len(df)
    /\ evaluator \in {"simple", "optimized"}
    /\ row = None
    /\ signal = None
    /\ \E c \in SeriesConfigs :
         /\ initial_capital = c.initial_capital
         /\ risk_per_trade = c.risk_per_trade
         /\ fee_percent = c.fee_percent
         /\ slippage_percent = c.slippage_percent
         /\ capital = c.initial_capital
         /\ equity_curve = <<c.initial_capital>>
    /\ equity_dates = <<>>
    /\ trades = <<>>
    /\ open_trades = <<>>
    /\ result = None
    /\ size_args = None
    /\ size_ret = None
    /\ queried = <<>>
    /\ run = 0
    /\ first_result = None
    /\ other = None
    /\ ev_call = None
    /\ ev_frame = None
    /\ ev_ret = None

\* one iteration of `for i in range(len(df))` over the fixed series
IterationSeries ==
    /\ pc = "loop"
    /\ i < ndf
    /\ \E sig \in {SignalAt(df, evaluator, i)} :
       \E body \in {LoopBody(Instance, i, df[i + 1], sig)} :
           /\ row' = df[i + 1]
           /\ signal' = sig
           /\ capital' = body.capital
           /\ trades' = body.trades
           /\ open_trades' = body.open_trades
           /\ equity_curve' = body.equity_curve
           /\ equity_dates' = body.equity_dates
           /\ queried' = IF WarmedUp(i) THEN Append(queried, Query(i, sig))
                         ELSE queried
    /\ i' = i + 1
    /\ UNCHANGED <<pc, argvars, configvars, result, run, first_result, other,
                   callvars>>

\* run_backtest is called again on the instance, with the same arguments; the
\* caller keeps the result of the first call
Rerun ==
    /\ pc = "done"
    /\ run = 1
    /\ StartRun
    /\ first_result' = result
    /\ result' = None
    /\ UNCHANGED <<argvars, configvars, other, callvars>>

NextSeries == Reset \/ IterationSeries \/ Finish \/ Rerun

SpecSeries == InitSeries /\ [][NextSeries]_vars

\* the instance after "Reset state" on a non-empty series
FreshRun ==
    [capital |-> initial_capital, equity_curve |-> <<initial_capital>>,
     equity_dates |-> <<0>>, trades |-> <<>>, open_trades |-> <<>>]

RECURSIVE Replay(_, _, _, _, _)
\* the instance after the loop bodies of indices lo..hi over the series, from
\* the instance inst; the range is halved to keep the evaluation shallow
Replay(series, name, lo, hi, inst) ==
    IF lo > hi THEN inst
    ELSE IF lo = hi
    THEN LoopBody(inst, lo, series[lo + 1], SignalAt(series, name, lo))
    ELSE LET mid  == (lo + hi) \div 2
             half == Replay(series, name, lo, mid, inst)
         IN  IF Len(half.equity_curve) > 0
             THEN Replay(series, name, mid + 1, hi, half)
             ELSE half

-----------------------------------------------------------------------------
(* Two Backtester instances with the same constructor arguments, each with  *)
(* its own evaluator, run over the same series object; their loop           *)
(* iterations interleave in every order (run_comparison_test runs them one  *)
(* after the other).  The first instance is the one of the variables above, *)
(* the second is the record `other`.                                        *)

\* the series of the pair: a LONG entered on bar 200 that bar 201 closes at
\* the first target or at the stop
PairSeries == { WarmUpBars \o <<CrossBar, RiseBar>>, WarmUpBars \o <<CrossBar, FallBar>> }

\* mutant: the capital is an attribute of the class, shared by the instances
OtherInstance_SharedCapital ==
    [capital |-> capital, equity_curve |-> other.equity_curve,
     equity_dates |-> other.equity_dates, trades |-> other.trades,
     open_trades |-> other.open_trades]

\* the fields of the second instance: attributes its constructor created
OtherInstance ==
    [capital |-> other.capital, equity_curve |-> other.equity_curve,
     equity_dates |-> other.equity_dates, trades |-> other.trades,
     open_trades |-> other.open_trades]

InitPair ==
    /\ pc = "idle"
    /\ i = 0
    /\ df \in PairSeries
    /\ ndf = Len(df)
    /\ evaluator = "simple"
    /\ row = None
    /\ signal = None
    /\ \E c \in SeriesConfigs :
         /\ initial_capital = c.initial_capital
         /\ risk_per_trade = c.risk_per_trade
         /\ fee_percent = c.fee_percent
         /\ slippage_percent = c.slippage_percent
         /\ capital = c.initial_capital
         /\ equity_curve = <<c.initial_capital>>
         /\ other = [pc |-> "idle", i |-> 0, row |-> None, signal |-> None,
                     evaluator |-> "optimized", capital |-> c.initial_capital,
                     equity_curve |-> <<c.initial_capital>>, equity_dates |-> <<>>,
                     trades |-> <<>>, open_trades |-> <<>>, result |-> None]
    /\ equity_dates = <<>>
    /\ trades = <<>>
    /\ open_trades = <<>>
    /\ result = None
    /\ size_args = None
    /\ size_ret = None
    /\ queried = <<>>
    /\ run = 0
    /\ first_result = None
    /\ ev_call = None
    /\ ev_frame = None
    /\ ev_ret = None

\* the variables of the first instance and of its run
firstvars ==
    <<pc, i, row, signal, capital, equity_curve, equity_dates, trades, open_trades,
      result, queried, run, first_result>>

\* the second instance starts its run_backtest call
ResetOther ==
    /\ other.pc = "idle"
    /\ LET f == ResetFields(OtherInstance, ndf)
       IN  other' = [other EXCEPT !.capital = f.capital,
                                  !.equity_curve = f.equity_curve,
                                  !.equity_dates = f.equity_dates,
                                  !.trades = f.trades,
                                  !.open_trades = f.open_trades,
                                  !.pc = IF f.raised THEN "raised" ELSE "loop",
                                  !.i = 0]
    /\ UNCHANGED <<firstvars, argvars, configvars, callvars>>

\* one loop iteration of the second instance
IterationOther ==
    /\ other.pc = "loop"
    /\ other.i < ndf
    /\ \E sig \in {SignalAt(df, other.evaluator, other.i)} :
       \E body \in {LoopBody(OtherInstance, other.i, df[other.i + 1], sig)} :
           other' = [other EXCEPT !.row = df[other.i + 1],
                                  !.signal = sig,
                                  !.capital = body.capital,
                                  !.trades = body.trades,
                                  !.open_trades = body.open_trades,
                                  !.equity_curve = body.equity_curve,
                                  !.equity_dates = body.equity_dates,
                                  !.i = @ + 1]
    /\ UNCHANGED <<firstvars, argvars, configvars, callvars>>

\* the second instance closes what is still open and returns its result
FinishOther ==
    /\ other.pc = "loop"
    /\ other.i = ndf
    /\ LET inst   == OtherInstance
           closed == CloseRemaining([capital |-> inst.capital, trades |-> inst.trades,
                                     open_trades |-> inst.open_trades],
                                    inst.open_trades, other.row, ndf - 1)
       IN  other' = [other EXCEPT !.capital = closed.capital,
                                  !.trades = closed.trades,
                                  !.open_trades = closed.open_trades,
                                  !.result = _calculate_results(closed, inst.equity_curve,
                                                                inst.equity_dates, ndf),
                                  !.pc = "done"]
    /\ UNCHANGED <<firstvars, argvars, configvars, callvars>>

NextPair ==
    \/ Reset \/ IterationSeries \/ Finish
    \/ ResetOther \/ IterationOther \/ FinishOther

SpecPair == InitPair /\ [][NextPair]_vars

\* the BacktestResult of a run on its own over the series, with the evaluator
\* of that name, on a fresh instance
SoloResult(series, name) ==
    LET looped == Replay(series, name, 0, Len(series) - 1, FreshRun)
        closed == CloseRemaining([capital |-> looped.capital, trades |-> looped.trades,
                                  open_trades |-> looped.open_trades],
                                 looped.open_trades, series[Len(series)],
                                 Len(series) - 1)
    IN  _calculate_results(closed, looped.equity_curve, looped.equity_dates,
                           Len(series))

-----------------------------------------------------------------------------
(* Properties *)

SeqSet(s) == { s[k] : k \in 1..Len(s) }

\* a price shifted against the trade by the slippage rate on the way out
AdverseExit(side, price) ==
    IF side = "LONG"
    THEN RMul(price, RSub(One, slippage_percent))
    ELSE RMul(price, RAdd(One, slippage_percent))

\* t was closed by check_exit on the bar processed last (`row`)
ExitedOnRow(t) ==
    /\ pc \in {"loop", "done"}
    /\ t.status = "CLOSED"
    /\ t.exit_reason # "END_OF_DATA"
    /\ t.exit_time = i - 1

RowStop(t) == StopReached(t, Num(row.high), Num(row.low))
RowTPs(t) == TPReached(t, Num(row.high), Num(row.low))

\* the proposal cannot be sized: stop on the entry or on the winning side of
\* it, or nothing left to risk
Unsizable(sig) ==
    \/ sig.side = "LONG" /\ sig.stop_loss >= sig.entry_price
    \/ sig.side = "SHORT" /\ sig.stop_loss <= sig.entry_price
    \/ RLe(capital, Zero)

\* C1: at every bar boundary of run_backtest (after each iteration of the bar
\* loop, and before and after the loop) open_trades holds at most one trade,
\* whatever the evaluator proposes.
C1_AtMostOneOpenTrade == Len(open_trades) <= 1

\* C1 witness: a bar boundary at which the evaluator proposed a sizable trade
\* while a trade entered on an earlier bar was still open.
C1_Witness ==
    /\ pc = "loop"
    /\ Len(open_trades) = 1
    /\ signal \in Signals
    /\ ~Unsizable(signal)
    /\ open_trades[1].entry_time < i - 1

\* C2 (states): when run_backtest has returned, no trade is open, every trade of
\* the returned list is CLOSED, and a trade closed with END_OF_DATA has the last
\* bar's timestamp as exit time and the last bar's close, after exit slippage,
\* as exit price.
C2_StatePart ==
    pc = "done" =>
        /\ open_trades = <<>>
        /\ \A t \in SeqSet(result.trades) :
             /\ t.status = "CLOSED"
             /\ t.exit_reason = "END_OF_DATA" =>
                  /\ t.exit_time = ndf - 1
                  /\ t.exit_price = AdverseExit(t.side, Num(row.close))

\* C2 (progress): on a non-empty series the call raises nothing, the loop index
\* never passes the length of the series, and every step of the loop either
\* moves to the next bar or returns.
C2_Bounded == ndf > 0 => (i <= ndf /\ pc # "raised")

C2_Advances == pc = "loop" => (pc' = "loop" /\ i' = i + 1) \/ (pc' = "done" /\ i = ndf)

\* C2 (steps): the step that ends the run closes every trade that was still
\* open after the last bar with reason END_OF_DATA.
C2_StepPart ==
    (pc = "loop" /\ pc' = "done") =>
        \A k \in 1..Len(open_trades) :
            \E t \in SeqSet(trades') :
                /\ t.entry_time = open_trades[k].entry_time
                /\ t.exit_reason = "END_OF_DATA"

\* C2: every run_backtest call on a non-empty series ends with no OPEN trade: a
\* trade still open after the last bar is force-closed with END_OF_DATA at the
\* last bar's timestamp and close, so every returned trade is CLOSED.
C2_NoOpenTradeAtEnd ==
    /\ []C2_StatePart
    /\ []C2_Bounded
    /\ [][C2_Advances]_vars
    /\ [][C2_StepPart]_vars

\* C2 witness: a finished run whose last trade was force-closed after another
\* trade had been closed during the replay.
C2_Witness ==
    /\ pc = "done"
    /\ Len(result.trades) = 2
    /\ result.trades[1].exit_reason # "END_OF_DATA"
    /\ result.trades[2].exit_reason = "END_OF_DATA"

\* C3: when the bar on which check_exit closes a trade reaches both its stop
\* and at least one of its take-profit levels, the exit reason is STOP_LOSS and
\* the exit is priced from the stop (the stop after exit slippage; the stop
\* itself when the slippage rate is 0), never from a take-profit level.
C3_StopBeforeTakeProfit ==
    \A t \in SeqSet(trades) :
        (ExitedOnRow(t) /\ RowStop(t) /\ RowTPs(t) # {}) =>
            /\ t.exit_reason = "STOP_LOSS"
            /\ t.exit_price = AdverseExit(t.side, t.stop_loss)
            /\ slippage_percent = Zero => t.exit_price = t.stop_loss

\* C3 witness: a trade closed on a bar that reached its stop and a take-profit.
C3_Witness ==
    \E t \in SeqSet(trades) :
        /\ ExitedOnRow(t)
        /\ RowStop(t)
        /\ RowTPs(t) # {}
        /\ t.exit_reason = "STOP_LOSS"

\* C4: when the bar on which check_exit closes a trade does not reach its stop
\* and reaches several take-profit levels, the level that comes first in the
\* list wins: the reason is TP<k> for the smallest list position k reached and
\* the exit is priced from that level (the level after exit slippage; the level
\* itself when the slippage rate is 0).  A LONG with TP1=103, TP2=105 and a bar
\* with high=106, low=99 exits with reason TP1, priced from 103.
C4_FirstTakeProfitInListWins ==
    \A t \in SeqSet(trades) :
        (ExitedOnRow(t) /\ ~RowStop(t) /\ RowTPs(t) # {}) =>
            \E k \in RowTPs(t) :
                /\ \A j \in RowTPs(t) : k <= j
                /\ t.exit_reason = "TP" \o ToString(k)
                /\ t.exit_price = AdverseExit(t.side, t.take_profits[k])
                /\ slippage_percent = Zero => t.exit_price = t.take_profits[k]
                /\ ( /\ t.side = "LONG"
                     /\ t.take_profits[1] = Num(103)
                     /\ t.take_profits[2] = Num(105)
                     /\ row.high = 106
                     /\ row.low = 99 ) =>
                       /\ t.exit_reason = "TP1"
                       /\ t.exit_price = AdverseExit("LONG", Num(103))

\* C4 witness: the LONG trade of the example (stop 98, TP1=103, TP2=105), closed
\* on the bar high=106, low=99 with reason TP1 at 103 (no slippage).
C4_Witness ==
    \E t \in SeqSet(trades) :
        /\ ExitedOnRow(t)
        /\ t.side = "LONG"
        /\ t.stop_loss = Num(98)
        /\ t.take_profits[1] = Num(103)
        /\ t.take_profits[2] = Num(105)
        /\ row.high = 106
        /\ row.low = 99
        /\ Cardinality(RowTPs(t)) >= 2
        /\ slippage_percent = Zero
        /\ t.exit_reason = "TP1"
        /\ t.exit_price = Num(103)

\* C5: a trade closed with reason STOP_LOSS, LONG or SHORT, is priced from its
\* stop (the stop after exit slippage; the stop itself when the slippage rate
\* is 0), not from the bar's low, high or close, and its pnl is negative, for
\* every fee and slippage rate.
C5_StopLossExitAtStopLoses ==
    \A t \in SeqSet(trades) :
        t.exit_reason = "STOP_LOSS" =>
            /\ t.exit_price = AdverseExit(t.side, t.stop_loss)
            /\ slippage_percent = Zero => t.exit_price = t.stop_loss
            /\ RLt(t.pnl, Zero)

\* C5 witness: the example: LONG entered at 100 with stop 98, closed on the bar
\* low=97, high=99 at 98 with reason STOP_LOSS and a negative pnl.
C5_Witness ==
    \E t \in SeqSet(trades) :
        /\ ExitedOnRow(t)
        /\ t.side = "LONG"
        /\ t.entry_price = Num(100)
        /\ t.stop_loss = Num(98)
        /\ row.low = 97
        /\ row.high = 99
        /\ t.exit_reason = "STOP_LOSS"
        /\ t.exit_price = Num(98)
        /\ RLt(t.pnl, Zero)

\* the stop lies on the losing side of the entry: below it for LONG, above it
\* for SHORT
StopOnLosingSide(a) ==
    \/ a.side = "LONG" /\ a.stop_loss < a.entry_price
    \/ a.side = "SHORT" /\ a.stop_loss > a.entry_price

\* capital * risk_per_trade / |entry - stop|
RiskOverDistance(a) ==
    RDiv(RMul(capital, risk_per_trade), Num(Abs(a.entry_price - a.stop_loss)))

\* C6 as stated: calculate_position_size returns capital * risk_per_trade /
\* |entry - stop| for every entry # stop, whichever side the stop lies on, and
\* returns 0 only when the stop equals the entry.
C6_SizeFromAbsoluteDistance ==
    pc = "size_done" =>
        /\ size_args.entry_price # size_args.stop_loss =>
               size_ret = RiskOverDistance(size_args)
        /\ size_ret = Zero => size_args.entry_price = size_args.stop_loss

\* C6 amended: calculate_position_size returns capital * risk_per_trade /
\* |entry - stop| when the stop lies on the losing side of the entry (below it
\* for LONG, above it for SHORT), and returns 0 when the stop equals the entry
\* or lies on the other side of it.
C6_SizeOnLosingSideOnly ==
    pc = "size_done" =>
        IF StopOnLosingSide(size_args)
        THEN size_ret = RiskOverDistance(size_args) /\ size_ret # Zero
        ELSE size_ret = Zero

\* C6 witness: the example: capital=10000, risk_per_trade=0.01, entry=100,
\* stop=98 (LONG) gives 50.
C6_Witness ==
    /\ pc = "size_done"
    /\ capital = Num(10000)
    /\ risk_per_trade = Rat(1, 100)
    /\ size_args = [entry_price |-> 100, stop_loss |-> 98, side |-> "LONG"]
    /\ size_ret = Num(50)

\* C7 (states): every trade that exists has position_size > 0; a run on a
\* non-empty series never ends by an exception; after a bar whose proposal
\* could not be sized no open trade was entered on that bar.
C7_StatePart ==
    /\ \A t \in SeqSet(open_trades) \cup SeqSet(trades) : RGt(t.position_size, Zero)
    /\ pc = "raised" => ndf = 0
    /\ (pc = "loop" /\ i > WarmUp /\ signal # None /\ Unsizable(signal)) =>
          \A t \in SeqSet(open_trades) : t.entry_time # i - 1

\* C7 (steps): on a bar whose proposal cannot be sized, open_trades, trades and
\* capital end as the bar's exit checks left them, and the loop goes on.
C7_StepPart ==
    (pc = "loop" /\ i >= WarmUp /\ i < ndf /\ signal' # None /\ Unsizable(signal)') =>
        LET exited == CheckExits(Self, open_trades, row', i)
        IN  /\ open_trades' = exited.open_trades
            /\ trades' = exited.trades
            /\ capital' = exited.capital
            /\ pc' = "loop"
            /\ i' = i + 1

\* C7: when the computed position size is zero or negative, enter_trade creates
\* no trade, leaves open_trades, trades and capital unchanged, raises nothing,
\* and the replay continues with the next bar; every trade that exists has
\* position_size > 0.
C7_DegenerateSizingIsNoOp == []C7_StatePart /\ [][C7_StepPart]_vars

\* C7 witness: a bar boundary after the evaluator proposed a trade whose stop
\* equals its entry while no trade was open; the replay has bars left.
C7_Witness ==
    /\ pc = "loop"
    /\ i > WarmUp
    /\ i < ndf
    /\ signal # None
    /\ signal.stop_loss = signal.entry_price
    /\ open_trades = <<>>
    /\ trades = <<>>
    /\ capital = initial_capital

\* C8: an empty bar series makes run_backtest return a result with zero trades
\* and an equity curve of exactly one point, without raising.
C8_EmptySeriesReturnsResult ==
    (ndf = 0 /\ pc # "idle") =>
        /\ pc = "done"
        /\ result.total_trades = 0
        /\ result.equity_curve = <<initial_capital>>

\* C9: after run_backtest has processed k bars the equity curve has k + 1
\* entries, and the returned equity_curve has len(bars) + 1 entries, however
\* many trades were opened or closed.
C9_EquityCurveLength ==
    /\ pc \in {"loop", "done", "raised"} => Len(equity_curve) = i + 1
    /\ pc = "done" => Len(result.equity_curve) = ndf + 1

\* C9 witness: a finished run over more bars than the warm-up window that
\* closed two trades.
C9_Witness ==
    /\ pc = "done"
    /\ ndf > WarmUp
    /\ Len(result.trades) = 2
    /\ Len(result.equity_curve) = ndf + 1

ExitReasons == {"STOP_LOSS", "TP1", "TP2", "TP3", "END_OF_DATA"}

\* C10: every closed trade with a three-level take-profit list has an
\* exit_reason among STOP_LOSS, TP1, TP2, TP3 and END_OF_DATA, and END_OF_DATA
\* is the reason only of a trade closed after the last bar, at the end of the
\* run.
C10_ExitReasons ==
    \A t \in SeqSet(trades) :
        Len(t.take_profits) = 3 =>
            /\ t.status = "CLOSED"
            /\ t.exit_reason \in ExitReasons
            /\ t.exit_reason = "END_OF_DATA" => (pc = "done" /\ t.exit_time = ndf - 1)

\* C10 witness: a finished run with a trade closed at its third take-profit
\* level and a trade force-closed after the last bar.
C10_Witness ==
    /\ pc = "done"
    /\ \E t \in SeqSet(result.trades) : t.exit_reason = "TP3"
    /\ \E t \in SeqSet(result.trades) : t.exit_reason = "END_OF_DATA"

\* C11: the evaluator is never queried for a bar whose index is below the
\* warm-up window, so every trade, open or closed, was entered on a bar of
\* index WarmUp or more, and a run over a series shorter than the warm-up
\* window ends with total_trades = 0 and an evaluator that was never called.
C11_NoEntryBeforeWarmUp ==
    /\ \A k \in 1..Len(queried) : queried[k].len - 1 >= WarmUp
    /\ \A t \in SeqSet(trades) \cup SeqSet(open_trades) : t.entry_time >= WarmUp
    /\ (pc = "done" /\ ndf < WarmUp) => (result.total_trades = 0 /\ queried = <<>>)

\* a run over a non-empty series shorter than the warm-up window has returned
C11_Witness ==
    /\ pc = "done"
    /\ ndf > 0
    /\ ndf < WarmUp
    /\ result.total_trades = 0

\* the trades check_exit closed on bar k
ClosedOnBar(k) ==
    { t \in SeqSet(trades) : t.exit_time = k /\ t.exit_reason # "END_OF_DATA" }

C18_StatePart ==
    /\ \A k \in 1..(Len(equity_curve) - 1) :
         equity_curve[k + 1] # equity_curve[k] => ClosedOnBar(k - 1) # {}
    /\ (\A k \in 1..Len(queried) : ~queried[k].proposed) =>
         /\ trades = <<>>
         /\ open_trades = <<>>
         /\ \A k \in 1..Len(equity_curve) : equity_curve[k] = initial_capital
         /\ pc = "done" => result.total_trades = 0

C18_StepPart ==
    /\ capital' # capital => Len(trades') > Len(trades)
    /\ (pc = "loop" /\ i' = i + 1) =>
         capital' = CheckExits(Self, open_trades, row', i).capital

\* C18: capital changes only in a step that closes a trade, and the entry of
\* an iteration leaves the capital the exits of that iteration produced; two
\* consecutive equity points differ only if check_exit closed a trade on the
\* bar between them; while the evaluator has proposed nothing there is no
\* trade and every equity point equals initial_capital.
C18_CapitalChangesOnlyAtExit == []C18_StatePart /\ [][C18_StepPart]_vars

\* a trade closed on a bar moved the equity curve, and the trade entered
\* afterwards carries an entry fee while the capital is the recorded equity
C18_Witness ==
    /\ Len(trades) >= 1
    /\ ClosedOnBar(i - 1) # {}
    /\ equity_curve[Len(equity_curve)] # equity_curve[Len(equity_curve) - 1]
    /\ Len(open_trades) = 1
    /\ open_trades[1].fees # Zero
    /\ capital = equity_curve[Len(equity_curve)]

\* C20: within a bar the exits are resolved first, then an entry is
\* considered, then the equity is recorded: a trade closed by its stop or a
\* take-profit has exit_time later than entry_time, and the equity point of
\* the bar on which it closed is the previous point plus its pnl.
C20_ExitsThenEntryThenEquity ==
    \A t \in SeqSet(trades) :
      t.exit_reason # "END_OF_DATA" =>
        /\ t.exit_time > t.entry_time
        /\ equity_curve[t.exit_time + 2] = RAdd(equity_curve[t.exit_time + 1], t.pnl)

\* a trade was entered on the very bar on which the previous trade closed
C20_Witness ==
    \E t \in SeqSet(trades) : \E o \in SeqSet(open_trades) :
      /\ t.exit_reason # "END_OF_DATA"
      /\ o.entry_time = t.exit_time
      /\ t.exit_time = t.entry_time + 1
      /\ t.pnl # Zero

\* the ratios of a result, each a number (no division by zero was taken) or
\* the quotient the model leaves uncomputed
RatiosDefined(res) ==
    /\ \A x \in {res.win_rate, res.profit_factor, res.average_win, res.average_loss,
                 res.calmar_ratio, res.max_drawdown_percent, res.total_return_percent} :
         x.den > 0
    /\ \A x \in {res.sharpe_ratio, res.sortino_ratio} : x = Quotient \/ x.den > 0

\* C17: a run that reaches _calculate_results gets every ratio as a number:
\* with zero trades win_rate, profit_factor and sharpe are 0; profit_factor
\* is 0 whenever gross_loss is 0; sharpe is 0 when all equity returns are
\* equal (zero standard deviation); sortino is 0 when no return is negative;
\* calmar is 0 when the maximum drawdown is 0.
C17_DegenerateRatiosAreZero ==
    pc = "done" =>
      LET returns == Returns(result.equity_curve)
      IN  /\ RatiosDefined(result)
          /\ result.total_trades = 0 =>
               /\ result.win_rate = Zero
               /\ result.profit_factor = Zero
               /\ result.sharpe_ratio = Zero
          /\ result.gross_loss = Zero => result.profit_factor = Zero
          /\ (\A k \in 1..Len(returns) : returns[k] = returns[1]) =>
               result.sharpe_ratio = Zero
          /\ (\A k \in 1..Len(returns) : RGe(returns[k], Zero)) =>
               result.sortino_ratio = Zero
          /\ result.max_drawdown_percent = Zero => result.calmar_ratio = Zero

\* a run with winning trades only: a positive gross profit over a zero gross
\* loss, a rising equity curve without a negative return or a drawdown
C17_Witness ==
    /\ pc = "done"
    /\ result.total_trades > 0
    /\ result.gross_loss = Zero
    /\ RGt(result.gross_profit, Zero)
    /\ result.profit_factor = Zero
    /\ result.sharpe_ratio = Quotient
    /\ result.sortino_ratio = Zero
    /\ result.max_drawdown_percent = Zero
    /\ result.calmar_ratio = Zero

\* C14: a call of any of the four evaluators leaves the frame it was handed
\* with the columns and the values it had before the call.
C14_EvaluatorsLeaveFrameUnchanged ==
    pc = "eval_done" => ev_frame = ev_call.frame

\* the crossover of the two bars of a call, read off its arguments
CallBullish ==
    /\ ev_call.frame.len >= 2
    /\ ev_call.frame.previous.ema_8 <= ev_call.frame.previous.ema_21
    /\ ev_call.frame.current.ema_8 > ev_call.frame.current.ema_21

CallBearish ==
    /\ ev_call.frame.len >= 2
    /\ ev_call.frame.previous.ema_8 >= ev_call.frame.previous.ema_21
    /\ ev_call.frame.current.ema_8 < ev_call.frame.current.ema_21

\* the confirmation count of a call with a crossover: the crossover plus the
\* auxiliary checks that hold, at the thresholds of the evaluator called
CallCount ==
    LET side == IF CallBullish THEN "LONG" ELSE "SHORT"
    IN  1 + Count(IF ev_call.evaluator = "optimized"
                  THEN AuxiliaryChecks(ev_call.frame.current, side, Rat(5, 10), 30, 70,
                                       Rat(15, 10))
                  ELSE AuxiliaryChecks(ev_call.frame.current, side, Rat(3, 10), 25, 75,
                                       Rat(12, 10)))

\* a non-debug call of the optimized or of the relaxed evaluator has returned
ConfirmedCallDone ==
    /\ pc = "eval_done"
    /\ ev_call.evaluator \in {"optimized", "relaxed"}
    /\ ~ev_call.debug

\* C15: the optimized and relaxed evaluators (non-debug) return None when the
\* two latest bars show no EMA(8)/EMA(21) crossover; a bullish and a bearish
\* crossover never hold together; a proposal is LONG exactly for a bullish
\* crossover and SHORT exactly for a bearish one.
C15_NoCrossoverNoProposal ==
    ConfirmedCallDone =>
      /\ ~(CallBullish /\ CallBearish)
      /\ (~CallBullish /\ ~CallBearish) => ev_ret = None
      /\ ev_ret # None =>
           /\ ev_ret.side = "LONG" <=> CallBullish
           /\ ev_ret.side = "SHORT" <=> CallBearish

\* EMA(8) is above EMA(21) on both bars (no crossover), all five auxiliary
\* checks of the LONG side hold, and the optimized evaluator returned None
C15_Witness ==
    /\ ConfirmedCallDone
    /\ ev_call.evaluator = "optimized"
    /\ ev_call.frame.previous.ema_8 > ev_call.frame.previous.ema_21
    /\ ev_call.frame.current.ema_8 > ev_call.frame.current.ema_21
    /\ Count(AuxiliaryChecks(ev_call.frame.current, "LONG", Rat(5, 10), 30, 70,
                             Rat(15, 10))) = 5
    /\ ev_ret = None

\* C16: given a crossover, the optimized evaluator proposes exactly when the
\* confirmation count is at least 5 and the relaxed one exactly when it is at
\* least 4; the proposal carries that count, between the minimum and 6.
C16_ProposalIffEnoughConfirmations ==
    (ConfirmedCallDone /\ (CallBullish \/ CallBearish)) =>
      LET minimum == IF ev_call.evaluator = "optimized" THEN 5 ELSE 4
      IN  /\ ev_ret # None <=> CallCount >= minimum
          /\ ev_ret # None =>
               /\ ev_ret.confirmations = CallCount
               /\ ev_ret.confirmations >= minimum
               /\ ev_ret.confirmations <= 6

\* a count exactly equal to the minimum was accepted
C16_Witness ==
    /\ ConfirmedCallDone
    /\ ev_call.evaluator = "optimized"
    /\ CallBearish
    /\ CallCount = 5
    /\ ev_ret # None
    /\ ev_ret.confirmations = 5

\* C12: a second run_backtest call on the same instance, over the same
\* series with the same evaluator and constructor arguments, returns the
\* result the first call on the fresh instance returned: same trades, same
\* equity curve and dates, same statistics.
C12_SecondRunSameResult ==
    (pc = "done" /\ run = 2) => result = first_result

\* the second run has returned, and the first run had closed trades of which
\* one was still open when the series ended
C12_Witness ==
    /\ pc = "done"
    /\ run = 2
    /\ first_result.total_trades >= 2
    /\ first_result.final_capital # initial_capital
    /\ result.trades = first_result.trades

\* the instance fields a replay is compared on
Replayed(inst) ==
    [capital |-> inst.capital, open_trades |-> inst.open_trades,
     trades |-> inst.trades, equity_curve |-> inst.equity_curve]

\* C13: after processing bars 0..i-1 of the series, capital, open trade,
\* closed trades and equity curve are those of the replay of any series
\* that agrees with it on these bars, whatever its later bars are.
C13_NoLookahead ==
    (pc = "loop" /\ i > WarmUp) =>
      \A s \in SeriesSet :
        (Len(s) >= i /\ SubSeq(s, 1, i) = SubSeq(df, 1, i)) =>
          Replayed(Replay(s, evaluator, 0, i - 1, FreshRun)) = Replayed(Instance)

\* a trade was entered on the last bar processed, and a longer series agrees
\* on the bars processed and goes on with a bar that would close it
C13_Witness ==
    /\ pc = "loop"
    /\ i = WarmUp + 1
    /\ i = ndf
    /\ Len(open_trades) = 1
    /\ \E s \in SeriesSet :
         /\ Len(s) > i
         /\ SubSeq(s, 1, i) = df
         /\ s[i + 1].low <= open_trades[1].stop_loss.num

\* C19: whatever the interleaving of the loop iterations of two instances
\* over the same series object, each instance has, after each of its bars
\* beyond the warm-up window, the capital, trades and equity curve of its run
\* on its own, and returns the result of its run on its own.
C19_InterleavedRunsAreIndependent ==
    /\ (pc = "loop" /\ i > WarmUp) =>
         Instance = Replay(df, evaluator, 0, i - 1, FreshRun)
    /\ pc = "done" => result = SoloResult(df, evaluator)
    /\ (other.pc = "loop" /\ other.i > WarmUp) =>
         OtherInstance = Replay(df, other.evaluator, 0, other.i - 1, FreshRun)
    /\ other.pc = "done" => other.result = SoloResult(df, other.evaluator)

\* the first instance has its LONG stopped out on bar 201 and is still in its
\* loop, while the second instance, which went SHORT on that bar, has returned
C19_Witness ==
    /\ pc = "loop"
    /\ i = ndf
    /\ Len(trades) = 1
    /\ open_trades = <<>>
    /\ capital # initial_capital
    /\ other.pc = "done"
    /\ other.result.total_trades = 2
    /\ other.result.trades[2].side = "SHORT"

\* the fields of a trade that enter_trade sets and nothing changes afterwards
Entered(t) ==
    [entry_time |-> t.entry_time, symbol |-> t.symbol, side |-> t.side,
     entry_price |-> t.entry_price, stop_loss |-> t.stop_loss,
     take_profits |-> t.take_profits, position_size |-> t.position_size]

C21_StatePart ==
    /\ \A o \in SeqSet(open_trades) :
         /\ o.status = "OPEN"
         /\ o.exit_time = NoTime
         /\ o.exit_price = NoPrice
         /\ o.exit_reason = ""
    /\ \A t \in SeqSet(trades) : t.status = "CLOSED"
    /\ LET all == open_trades \o trades
       IN  \A j, k \in 1..Len(all) : all[j].entry_time = all[k].entry_time => j = k

C21_StepPart ==
    /\ Len(trades') >= Len(trades)
    /\ SubSeq(trades', 1, Len(trades)) = trades
    /\ \A k \in (Len(trades) + 1)..Len(trades') :
         \E o \in SeqSet(open_trades) : Entered(o) = Entered(trades'[k])
    /\ \A o \in SeqSet(open_trades) :
         \/ o \in SeqSet(open_trades')
         \/ \E k \in (Len(trades) + 1)..Len(trades') :
              trades'[k].entry_time = o.entry_time
    /\ \A o \in SeqSet(open_trades') :
         \/ o \in SeqSet(open_trades)
         \/ o.entry_time = i /\ o.status = "OPEN" /\ o.pnl = Zero

\* C21: open_trades holds only OPEN trades that carry no exit, the closed
\* list holds only CLOSED trades, and no trade is in both lists or twice in
\* one; a step of a run creates a trade OPEN in open_trades, leaves an open
\* trade as it is or moves it to the end of the closed list with the fields
\* of its entry unchanged, and never changes or removes a trade of the closed
\* list.
C21_OneTransitionPerTrade == []C21_StatePart /\ [][C21_StepPart]_vars

\* a trade closed at its first target lies in the closed list while the trade
\* entered on the bar of that exit is open
C21_Witness ==
    /\ pc = "loop"
    /\ Len(trades) = 1
    /\ trades[1].exit_reason = "TP1"
    /\ Len(open_trades) = 1
    /\ open_trades[1].entry_time = trades[1].exit_time

\* a price shifted against the trade by the slippage rate on the way in
AdverseEntry(side, price) ==
    IF side = "LONG"
    THEN RMul(price, RAdd(One, slippage_percent))
    ELSE RMul(price, RSub(One, slippage_percent))

\* the open trade was entered on the bar processed last, from `signal`
EnteredOnRow ==
    /\ pc = "loop"
    /\ Len(open_trades) = 1
    /\ open_trades[1].entry_time = i - 1

\* C22: the trade enter_trade creates for a proposal has the size
\* capital * risk_per_trade / |entry - stop| of the proposed entry price, the
\* entry price entry*(1+s) for LONG and entry*(1-s) for SHORT, the fee
\* size * slipped entry * fee rate, the proposed stop and take-profit levels,
\* and status OPEN.
C22_EntrySlippageAndFee ==
    EnteredOnRow =>
      LET t == open_trades[1]
      IN  /\ signal # None
          /\ t.side = signal.side
          /\ t.position_size =
               RDiv(RMul(capital, risk_per_trade),
                    Num(Abs(signal.entry_price - signal.stop_loss)))
          /\ t.entry_price = AdverseEntry(t.side, Num(signal.entry_price))
          /\ t.side = "LONG" => RGe(t.entry_price, Num(signal.entry_price))
          /\ t.side = "SHORT" => RLe(t.entry_price, Num(signal.entry_price))
          /\ t.fees = RMul(RMul(t.position_size, t.entry_price), fee_percent)
          /\ t.stop_loss = Num(signal.stop_loss)
          /\ t.take_profits = Prices(signal.take_profits)
          /\ t.status = "OPEN"

\* a SHORT entered at 100 with stop 102 under a slippage and a fee rate of
\* 1/10: size 50, recorded entry 90, entry fee 450
C22_Witness ==
    /\ EnteredOnRow
    /\ slippage_percent = Rat(1, 10)
    /\ fee_percent = Rat(1, 10)
    /\ capital = Num(1000)
    /\ open_trades[1].side = "SHORT"
    /\ open_trades[1].position_size = Num(50)
    /\ open_trades[1].entry_price = Num(90)
    /\ open_trades[1].fees = Num(450)

\* the price _exit_trade was handed for the closed trade t of a finished or
\* running call: the stop, the take-profit level of the reason, or the close
\* of the last bar
HandedPrice(t) ==
    IF t.exit_reason = "STOP_LOSS" THEN t.stop_loss
    ELSE IF t.exit_reason = "END_OF_DATA" THEN Num(row.close)
    ELSE LET k == CHOOSE k \in 1..Len(t.take_profits) : t.exit_reason = TPReason(k)
         IN  t.take_profits[k]

\* C23: a closed trade has the exit price price*(1-s) for LONG and
\* price*(1+s) for SHORT of the price it was closed at; with the entry fee
\* size * entry_price * fee rate and the exit fee size * exit_price * fee
\* rate, its pnl is (exit_price - entry_price) * size for LONG, the negation
\* for SHORT, minus the entry fee minus the exit fee, and its fees field is
\* the entry fee plus the exit fee.
C23_ExitSlippageFeesAndPnl ==
    \A t \in SeqSet(trades) :
      LET entry_fee == RMul(RMul(t.position_size, t.entry_price), fee_percent)
          exit_fee  == RMul(RMul(t.position_size, t.exit_price), fee_percent)
          move      == IF t.side = "LONG" THEN RSub(t.exit_price, t.entry_price)
                       ELSE RSub(t.entry_price, t.exit_price)
      IN  /\ t.exit_price = AdverseExit(t.side, HandedPrice(t))
          /\ t.side = "LONG" => RLe(t.exit_price, HandedPrice(t))
          /\ t.side = "SHORT" => RGe(t.exit_price, HandedPrice(t))
          /\ t.pnl = RSub(RSub(RMul(move, t.position_size), entry_fee), exit_fee)
          /\ t.fees = RAdd(entry_fee, exit_fee)

\* a SHORT closed at its first target under a slippage and a fee rate of 1/10,
\* with an entry fee and an exit fee that differ
C23_Witness ==
    \E t \in SeqSet(trades) :
      /\ t.side = "SHORT"
      /\ t.exit_reason = "TP1"
      /\ slippage_percent = Rat(1, 10)
      /\ fee_percent = Rat(1, 10)
      /\ t.exit_price = RMul(t.take_profits[1], Rat(11, 10))
      /\ t.fees # RMul(Num(2), RMul(RMul(t.position_size, t.entry_price), fee_percent))
      /\ RLt(t.pnl, Zero)

\* the capital at the time t was entered: the equity point recorded at the end
\* of the bar of its entry (an entry leaves the capital unchanged)
CapitalAtEntry(t) == equity_curve[t.entry_time + 2]

\* the entry price the evaluator proposed for t, before slippage
ProposedEntry(t) ==
    IF t.side = "LONG"
    THEN RDiv(t.entry_price, RAdd(One, slippage_percent))
    ELSE RDiv(t.entry_price, RSub(One, slippage_percent))

\* C24: the r_multiple of every closed trade is its pnl divided by the capital
\* at the time of its entry times risk_per_trade, which is the risk amount
\* its position size times the proposed stop distance gives back; with fee
\* and slippage rates of 0 a STOP_LOSS exit has r_multiple -1.
C24_RMultipleFromEntryRisk ==
    \A t \in SeqSet(trades) :
      LET risk == RMul(CapitalAtEntry(t), risk_per_trade)
          away == RSub(ProposedEntry(t), t.stop_loss)
      IN  /\ RGt(risk, Zero)
          /\ t.r_multiple = RDiv(t.pnl, risk)
          /\ RMul(t.position_size, IF t.side = "LONG" THEN away ELSE RNeg(away)) = risk
          /\ (fee_percent = Zero /\ slippage_percent = Zero
              /\ t.exit_reason = "STOP_LOSS") => t.r_multiple = Num(-1)

\* without fee and slippage, a first trade was stopped out at r_multiple -1
\* and the trade entered from the reduced capital was closed at the end of
\* the data with a loss measured against that capital
C24_Witness ==
    /\ pc = "done"
    /\ fee_percent = Zero
    /\ slippage_percent = Zero
    /\ Len(trades) = 2
    /\ trades[1].exit_reason = "STOP_LOSS"
    /\ trades[1].r_multiple = Num(-1)
    /\ CapitalAtEntry(trades[2]) = Num(900)
    /\ trades[2].r_multiple = RDiv(trades[2].pnl, Num(90))
    /\ RLt(trades[2].r_multiple, Zero)

\* a call of one of the three EMA-crossover evaluators returned a proposal
EmaProposed ==
    /\ pc \in {"eval_done", "eval_entered"}
    /\ ev_call.evaluator \in {"simple", "optimized", "relaxed"}
    /\ ev_ret # None
    /\ ev_call.debug => ev_ret.has_signal

\* C25: a proposal of an EMA-crossover evaluator has the current close as
\* entry, the stop 2*atr from it on the losing side and the targets 3*atr,
\* 5*atr and 7*atr from it on the winning side (below, above for LONG; above,
\* below for SHORT); for atr > 0 each target is farther from the entry than
\* the one before; for atr = 0 the stop equals the entry and handing the
\* proposal to the backtester opens no trade.
C25_AtrLevels ==
    EmaProposed =>
      LET bar  == ev_call.frame.current
          away == IF ev_ret.side = "LONG" THEN 1 ELSE -1
          tps  == ev_ret.take_profits
      IN  /\ ev_ret.side \in Sides
          /\ ev_ret.entry_price = bar.close
          /\ ev_ret.stop_loss = bar.close - away * 2 * bar.atr
          /\ tps = <<bar.close + away * 3 * bar.atr, bar.close + away * 5 * bar.atr,
                     bar.close + away * 7 * bar.atr>>
          /\ bar.atr > 0 =>
               /\ Abs(tps[1] - bar.close) < Abs(tps[2] - bar.close)
               /\ Abs(tps[2] - bar.close) < Abs(tps[3] - bar.close)
               /\ away * (tps[1] - bar.close) > 0
               /\ away * (ev_ret.stop_loss - bar.close) < 0
          /\ bar.atr = 0 =>
               /\ ev_ret.stop_loss = ev_ret.entry_price
               /\ pc = "eval_entered" => open_trades = <<>>

\* the SHORT proposal of the relaxed evaluator on a bar with atr = 0 was
\* handed to the backtester, which holds no trade afterwards
C25_Witness ==
    /\ EmaProposed
    /\ pc = "eval_entered"
    /\ ev_call.evaluator = "relaxed"
    /\ ev_ret.side = "SHORT"
    /\ ev_call.frame.current.atr = 0
    /\ ev_ret.stop_loss = ev_ret.entry_price
    /\ open_trades = <<>>

\* a non-debug call of the Stochastic-RSI evaluator on a frame long enough
\* for it has returned
StochCallDone ==
    /\ pc \in {"eval_done", "eval_entered"}
    /\ ev_call.evaluator = "stochastic"
    /\ ~ev_call.debug
    /\ ev_call.frame.len >= 30

\* the LONG trigger at the Stochastic-RSI values prev, cur of the two latest
\* bars: oversold, or bouncing from oversold
StochOversold(cur) == cur <= 30
StochBounce(prev, cur) == prev < 25 /\ cur >= 25

\* the six confirmations of a side at the values of a call; those of SHORT
\* are those of LONG with every value on the 0-100 scale mirrored about 50
\* and the directions of the crossover and of the trend reversed
StochConfirmations(side) ==
    LET ta    == ev_call.frame.ta
        bar   == ev_call.frame.current
        prev  == IF side = "LONG" THEN ta.previous.stoch_rsi
                 ELSE 100 - ta.previous.stoch_rsi
        cur   == IF side = "LONG" THEN ta.current.stoch_rsi
                 ELSE 100 - ta.current.stoch_rsi
        flat  == 1000 * Abs(bar.ema_21 - bar.ema_50) < 5 * bar.ema_50
    IN  << StochOversold(cur),
           StochBounce(prev, cur),
           IF side = "LONG"
           THEN /\ ta.previous.stoch_rsi_k <= ta.previous.stoch_rsi_d
                /\ ta.current.stoch_rsi_k > ta.current.stoch_rsi_d
           ELSE /\ ta.previous.stoch_rsi_k >= ta.previous.stoch_rsi_d
                /\ ta.current.stoch_rsi_k < ta.current.stoch_rsi_d,
           flat \/ (IF side = "LONG" THEN bar.ema_21 > bar.ema_50
                    ELSE bar.ema_21 < bar.ema_50),
           bar.volume > ta.vol_ma,
           IF side = "LONG" THEN bar.rsi > 20 ELSE 100 - bar.rsi > 20 >>

\* the trigger of a side: the first or the second confirmation holds
StochTrigger(side) == StochConfirmations(side)[1] \/ StochConfirmations(side)[2]

\* C26: the Stochastic-RSI evaluator proposes LONG only when the value is
\* oversold (<= 30) or bouncing from oversold, SHORT only under the same
\* conditions mirrored about the middle of the 0-100 scale; when the trigger
\* of a side holds (LONG first) it returns a proposal exactly when at least
\* 4 of the 6 confirmations of that side hold, and it returns None when
\* neither trigger holds.
C26_StochasticTriggersSymmetric ==
    StochCallDone =>
      /\ ev_ret # None => ev_ret.side \in Sides /\ StochTrigger(ev_ret.side)
      /\ StochTrigger("LONG") =>
           (ev_ret # None <=> Count(StochConfirmations("LONG")) >= 4)
      /\ (~StochTrigger("LONG") /\ StochTrigger("SHORT")) =>
           (ev_ret # None <=> Count(StochConfirmations("SHORT")) >= 4)
      /\ (~StochTrigger("LONG") /\ ~StochTrigger("SHORT")) => ev_ret = None

\* the largest of the first k points of a curve
PeakAt(curve, k) ==
    LET seen == { curve[j] : j \in 1..k }
    IN  CHOOSE p \in seen : \A q \in seen : RGe(p, q)

\* (running_peak - equity) / running_peak * 100 at point k of a curve
FallAt(curve, k) ==
    LET running_peak == PeakAt(curve, k)
    IN  RMul(RDiv(RSub(running_peak, curve[k]), running_peak), Num(100))

\* C27: max_drawdown_percent of a result is the largest, over the points of
\* its equity curve, of (running_peak - equity) / running_peak * 100 with
\* running_peak the largest equity up to the point; it is not negative, it is
\* 0 when the curve never decreases, and drawdown_curve has as many entries
\* as equity_curve.
C27_MaxDrawdownFromRunningPeak ==
    pc = "done" =>
      LET curve == result.equity_curve
          falls == { FallAt(curve, k) : k \in 1..Len(curve) }
      IN  /\ result.max_drawdown_percent \in falls
          /\ \A f \in falls : RGe(result.max_drawdown_percent, f)
          /\ RGe(result.max_drawdown_percent, Zero)
          /\ (\A k \in 1..(Len(curve) - 1) : RLe(curve[k], curve[k + 1])) =>
               result.max_drawdown_percent = Zero
          /\ Len(result.drawdown_curve) = Len(curve)

\* a run whose only closed trade lost a tenth of the capital at its stop: the
\* last equity point is 900 under a peak of 1000, a drawdown of 10 percent
C27_Witness ==
    /\ pc = "done"
    /\ ndf = WarmUp + 2
    /\ result.equity_curve[ndf + 1] = Num(900)
    /\ result.max_drawdown_percent = Num(10)
    /\ result.drawdown_curve[ndf + 1] = Num(-10)

RECURSIVE PnlOfFirst(_, _)
\* the sum of the pnl of the first k trades of a list
PnlOfFirst(ts, k) == IF k = 0 THEN Zero ELSE RAdd(PnlOfFirst(ts, k - 1), ts[k].pnl)

\* C28: in a returned result final_capital is initial_capital plus the sum of
\* the pnl of the trades of its trade list, net_profit is gross_profit minus
\* gross_loss, and winning, losing and breakeven trades add up to
\* total_trades, the length of the trade list.
C28_CapitalConserved ==
    pc = "done" =>
      /\ result.final_capital =
           RAdd(result.initial_capital, PnlOfFirst(result.trades, Len(result.trades)))
      /\ result.final_capital = capital
      /\ result.net_profit = RSub(result.gross_profit, result.gross_loss)
      /\ result.winning_trades + result.losing_trades + result.breakeven_trades
           = result.total_trades
      /\ result.total_trades = Len(result.trades)

\* a run under a fee rate of 1/10 with a trade closed at its first target
\* and a trade closed at the end of the data, both at a loss after fees
C28_Witness ==
    /\ pc = "done"
    /\ fee_percent = Rat(1, 10)
    /\ result.total_trades = 2
    /\ result.trades[1].exit_reason = "TP1"
    /\ result.trades[2].exit_reason = "END_OF_DATA"
    /\ result.losing_trades = 2
    /\ RLt(result.net_profit, Zero)
    /\ result.final_capital # result.initial_capital

\* C29: in a returned result the last point of equity_curve equals
\* final_capital, also when a trade was force-closed with END_OF_DATA after
\* the last bar.
C29_LastEquityIsFinalCapital ==
    pc = "done" =>
      result.equity_curve[Len(result.equity_curve)] = result.final_capital

\* the take-profit list of t is ordered by increasing distance from the
\* entry: ascending for LONG, descending for SHORT
OrderedTargets(t) ==
    \A k \in 1..(Len(t.take_profits) - 1) :
        IF t.side = "LONG"
        THEN RLe(t.take_profits[k], t.take_profits[k + 1])
        ELSE RGe(t.take_profits[k], t.take_profits[k + 1])

\* C30: a closed trade whose take-profit list is ordered by increasing
\* distance from the entry has exit reason STOP_LOSS, TP1 or END_OF_DATA,
\* never TP2 or TP3; when the bar on which check_exit closed it reaches a
\* take-profit level and not the stop, it reaches the first level, the
\* reason is TP1 and the exit is priced from the first level (the level after
\* exit slippage).
C30_OrderedTargetsExitAtFirst ==
    \A t \in SeqSet(trades) :
      OrderedTargets(t) =>
        /\ t.exit_reason \in {"STOP_LOSS", "TP1", "END_OF_DATA"}
        /\ (ExitedOnRow(t) /\ ~RowStop(t) /\ RowTPs(t) # {}) =>
             /\ 1 \in RowTPs(t)
             /\ t.exit_reason = "TP1"
             /\ t.exit_price = AdverseExit(t.side, t.take_profits[1])

\* a SHORT with targets 97, 95, 93 closed on a bar that fell through the
\* first two of them without reaching its stop: reason TP1, priced from 97
C30_Witness ==
    \E t \in SeqSet(trades) :
      /\ ExitedOnRow(t)
      /\ t.side = "SHORT"
      /\ OrderedTargets(t)
      /\ t.take_profits = <<Num(97), Num(95), Num(93)>>
      /\ ~RowStop(t)
      /\ RowTPs(t) = {1, 2}
      /\ t.exit_reason = "TP1"
      /\ t.exit_price = AdverseExit("SHORT", Num(97))

====
